---- MODULE Spec2Model ----
(***************************************************************************)
(* Error Batch Convergence Engine of mcp-phpstan.                          *)
(*                                                                         *)
(*   - PhpStanErrorFormatter.format_for_mcp / get_total_batches            *)
(*     (src/src/ErrorFormatter/Formatter.py): the batch planner;           *)
(*   - McpClient.run_phpstan_analysis / send_to_claude / apply_fixes       *)
(*     (src/src/McpIntegration/McpClient.py);                              *)
(*   - IncrementalProcessor.process (src/src/incremental_processor.py):    *)
(*     the analyse / batch / dispatch / patch loop.                        *)
(*                                                                         *)
(* The specifications of the module:                                       *)
(*   Spec        one run of IncrementalProcessor.process, the Analyzer,    *)
(*               the Fixer and the outcome of every patch being chosen by  *)
(*               the environment (FairSpec adds the progress of the        *)
(*               sequential program);                                      *)
(*   PlanSpec    the planner of run_phpstan_analysis and a consumer of its *)
(*               batches, over every bounded error sequence and positive   *)
(*               batch size;                                               *)
(*   ConfigSpec  the same steps for any integer batch size;                *)
(*   PatchSpec   apply_fixes on the text of one file, for one proposal     *)
(*               processed twice;                                          *)
(*   ClientSpec  one run of McpClient.process_phpstan_errors, the loop     *)
(*               main() calls;                                             *)
(*   FixListSpec apply_fixes on a list of fixes, file by file, with the    *)
(*               file-system errors the environment may raise;             *)
(*   ResolveSpec the same steps for one fix, over every set of existing    *)
(*               files;                                                    *)
(*   ParseSpec   parse_phpstan_output on reports of up to two sections;    *)
(*   ClassifySpec the same step on reports of one row, over the error      *)
(*               codes;                                                    *)
(*   OutsideSpec the steps of ResolveSpec for file names that are absolute *)
(*               or go through the parent directory;                       *)
(*   HandlerSpec the commands of one ClaudeCodeMcpHandler                  *)
(*               (src/src/ClaudeCodeMcp/claude_code_mcp.py);               *)
(*   McpCommandSpec the same commands given through handle_mcp_command     *)
(*               (src/src/ClaudeCodeMcp/mcp_command.py);                   *)
(*   PairSpec    process() and process_phpstan_errors(), each run as a     *)
(*               whole on the same files and the same deterministic        *)
(*               Analyzer and Fixer.                                       *)
(***************************************************************************)
EXTENDS Integers, Sequences, FiniteSets, TLC

\* ------------------------------------------------------------------ bounds

\* max_iterations ranges over 0..MaxIter
MaxIter == 2
\* max_errors_per_batch ranges over 1..MaxBatch
MaxBatch == 2
\* the Analyzer reports 0..MaxErrors records in one run of the loop
MaxErrors == 3
\* the Fixer returns 0..MaxFixes fix proposals for one batch
MaxFixes == 2
\* the planner is given error sequences of length 0..MaxPlanLen
MaxPlanLen == 4
\* and batch sizes 1..MaxPlanBatch
MaxPlanBatch == 3
\* the patcher is given file contents of 0..MaxContentLen characters
MaxContentLen == 4
\* and original fragments of 1..MaxFragLen characters
MaxFragLen == 3

\* The longest body of a report section, in rows, and the longest error code,
\* in tokens.
MaxBodyLen == 2

MaxCodeLen == 3

\* The longest list of fixes handed to apply_fixes.
MaxFixList == 2

\* The longest sequence of commands given to a handler.
MaxCommands == 2

\* -------------------------------------------------------------- data model

None == "None"

Files == {"A.php", "B.php"}

Lines == {1, 2}

\* A PhpStanError as parse_phpstan_output builds it: the error code is always
\* present (the row pattern requires it), the suggestion is optional.
MkError(f, l) ==
    [message    |-> IF l = 1 THEN "Undefined variable" ELSE "Other problem",
     file       |-> f,
     line       |-> l,
     error_type |-> IF l = 1 THEN "undefined_symbol" ELSE "other",
     error_code |-> IF l = 1 THEN "variable.undefined" ELSE "misc",
     suggestion |-> IF l = 1 THEN None ELSE "hint"]

ErrorRecords == {MkError(f, l) : f \in Files, l \in Lines}

ErrorTypes == {"undefined_symbol", "other"}

SeqsUpTo(S, n) == UNION {[1..k -> S] : k \in 0..n}

\* PhpStanError.to_dict: the suggestion key exists only for a truthy suggestion.
ToDict(e) ==
    IF e.suggestion # None
    THEN [message |-> e.message, file |-> e.file, line |-> e.line,
          error_type |-> e.error_type, error_code |-> e.error_code,
          suggestion |-> e.suggestion]
    ELSE [message |-> e.message, file |-> e.file, line |-> e.line,
          error_type |-> e.error_type, error_code |-> e.error_code]

\* The identity of a record (spec: its (file, line, message) triple).
Key(x) == <<x.file, x.line, x.message>>

Keys(s) == [i \in DOMAIN s |-> Key(s[i])]

Min(a, b) == IF a < b THEN a ELSE b

Max(a, b) == IF a > b THEN a ELSE b

\* Python's floor division a // b for b # 0 (TLC's \div takes a positive
\* divisor and rounds towards minus infinity, as Python does).
FloorDiv(a, b) == IF b > 0 THEN a \div b ELSE (0 - a) \div (0 - b)

\* ------------------------------------------------------------ batch planner

\* A slice bound as Python reads it: a negative bound counts from the end of
\* the list, and every bound is clamped to 0 .. len.
SliceBound(i, len) == IF i < 0 THEN Max(i + len, 0) ELSE Min(i, len)

\* errors[start_idx:end_idx]
Slice(s, start_idx, end_idx) ==
    SubSeq(s, SliceBound(start_idx, Len(s)) + 1, SliceBound(end_idx, Len(s)))

\* Formatter.py 145-147
BuggyBatchErrors(errors, batch_index, m) ==
    LET start_idx == batch_index * m
        end_idx   == start_idx + m + 1
    IN  Slice(errors, start_idx, end_idx)

BatchErrors(errors, batch_index, m) ==
    LET start_idx == batch_index * m
        end_idx   == start_idx + m
    IN  Slice(errors, start_idx, end_idx)

\* One pass of the grouping loop (Formatter.py 151-154) on an insertion-ordered
\* dict, held as a sequence of [file, errors] entries in insertion order.
BuggyGroupInsert(d, e) ==
    IF \E i \in DOMAIN d : d[i].file = e.file
    THEN d
    ELSE Append(d, [file |-> e.file, errors |-> <<ToDict(e)>>])

GroupInsert(d, e) ==
    IF \E i \in DOMAIN d : d[i].file = e.file
    THEN LET i == CHOOSE j \in DOMAIN d : d[j].file = e.file
         IN  [d EXCEPT ![i].errors = Append(@, ToDict(e))]
    ELSE Append(d, [file |-> e.file, errors |-> <<ToDict(e)>>])

\* Formatter.py 149-154
RECURSIVE GroupByFile(_)
GroupByFile(s) ==
    IF s = <<>> THEN <<>>
    ELSE GroupInsert(GroupByFile(SubSeq(s, 1, Len(s) - 1)), s[Len(s)])

\* Formatter.py 161: "has_more": end_idx < len(errors)
BuggyHasMore(end_idx, total_errors) == end_idx <= total_errors

HasMore(end_idx, total_errors) == end_idx < total_errors

\* Formatter.py 132-164
BuggyFormatForMcp(errors, batch_index, m) ==
    LET batch_errors == BatchErrors(errors, 0, m)
    IN  [batch |-> [index        |-> batch_index,
                    total_errors |-> Len(errors),
                    batch_size   |-> Len(batch_errors),
                    has_more     |-> HasMore(batch_index * m + m, Len(errors))],
         errors_by_file |-> GroupByFile(batch_errors)]

FormatForMcp(errors, batch_index, m) ==
    LET batch_errors == BatchErrors(errors, batch_index, m)
    IN  [batch |-> [index        |-> batch_index,
                    total_errors |-> Len(errors),
                    batch_size   |-> Len(batch_errors),
                    has_more     |-> HasMore(batch_index * m + m, Len(errors))],
         errors_by_file |-> GroupByFile(batch_errors)]

\* Formatter.py 166-176: (total_errors + m - 1) // m, for m # 0
BuggyGetTotalBatches(total_errors, m) == FloorDiv(total_errors, m)

GetTotalBatches(total_errors, m) == FloorDiv(total_errors + m - 1, m)

\* The entries of a batch, files in dict order, entries in list order.
RECURSIVE FlattenDict(_)
FlattenDict(d) ==
    IF d = <<>> THEN <<>> ELSE d[1].errors \o FlattenDict(Tail(d))

\* The entries of a list of batches, batches in list order.
RECURSIVE FlattenBatches(_)
FlattenBatches(bs) ==
    IF bs = <<>> THEN <<>>
    ELSE FlattenDict(bs[1].errors_by_file) \o FlattenBatches(Tail(bs))

\* McpClient.py 76-85: one formatted batch per index below get_total_batches.
PlanBatches(errors, m) ==
    [i \in 1..GetTotalBatches(Len(errors), m) |-> FormatForMcp(errors, i - 1, m)]

\* ------------------------------------------------------------------- Fixer

\* What becomes of one fix proposal inside apply_fixes (McpClient.py 282-360):
\* "applies"  the file is found, the fragment matched, the file written (357);
\* "skipped"  a continue statement is taken (292, 314, 342) or reading or
\*            writing the file raises and is caught (359).
FixKinds == {"applies", "skipped"}

FixLists == SeqsUpTo(FixKinds, MaxFixes)

NoResponse == [status |-> "none", fixes |-> <<>>]

\* send_to_claude (McpClient.py 120-262): "error" and "partial_success" always
\* carry an empty fix list, "success" carries whatever list the reply held.
Responses ==
    {[status |-> "error", fixes |-> <<>>],
     [status |-> "partial_success", fixes |-> <<>>]}
    \cup {[status |-> "success", fixes |-> f] : f \in FixLists}

\* McpClient.py 280-357: success_count after the loop over the fixes.
SuccessCount(fixes) == Cardinality({i \in DOMAIN fixes : fixes[i] = "applies"})

\* McpClient.py 264-363: the boolean apply_fixes returns.
ApplyFixes(fixes) == IF fixes = <<>> THEN TRUE ELSE SuccessCount(fixes) > 0

\* ----------------------------------------------------- Patcher, on strings

\* A string is a sequence of characters. The characters of a file and of an
\* original fragment: a letter, a blank and a line break.
Chars == {"a", " ", "\n"}

\* str.split() and ' '.join(...) treat these as whitespace.
Whitespace == {" ", "\n"}

Strings(n) == SeqsUpTo(Chars, n)

\* The replacement texts tried: a new letter, a text that contains the letter
\* of the fragment, and a text of two lines.
FixedCodes == {<<"b">>, <<"a", "a">>, <<"b", "\n", "b">>}

\* sub in s
Contains(sub, s) ==
    \E i \in 0..(Len(s) - Len(sub)) : SubSeq(s, i + 1, i + Len(sub)) = sub

\* s.split(): the maximal runs of non-whitespace characters, cur being the
\* run read so far.
RECURSIVE SplitWs(_, _)
SplitWs(s, cur) ==
    IF s = <<>>
    THEN IF cur = <<>> THEN <<>> ELSE <<cur>>
    ELSE IF s[1] \in Whitespace
         THEN (IF cur = <<>> THEN <<>> ELSE <<cur>>) \o SplitWs(Tail(s), <<>>)
         ELSE SplitWs(Tail(s), Append(cur, s[1]))

\* ' '.join(words)
RECURSIVE JoinSp(_)
JoinSp(words) ==
    IF words = <<>> THEN <<>>
    ELSE IF Len(words) = 1 THEN words[1]
         ELSE words[1] \o <<" ">> \o JoinSp(Tail(words))

\* McpClient.py 323-324, 335: ' '.join(x.split())
Normalize(s) == JoinSp(SplitWs(s, <<>>))

\* content.split('\n'): the physical lines, empty ones included.
RECURSIVE SplitLines(_, _)
SplitLines(s, cur) ==
    IF s = <<>> THEN <<cur>>
    ELSE IF s[1] = "\n"
         THEN <<cur>> \o SplitLines(Tail(s), <<>>)
         ELSE SplitLines(Tail(s), Append(cur, s[1]))

\* s.replace(old, new): every non-overlapping occurrence, from the left; an
\* empty old matches before every character and at the end.
RECURSIVE StrReplace(_, _, _)
StrReplace(s, old, new) ==
    IF old = <<>>
    THEN IF s = <<>> THEN new
         ELSE new \o <<s[1]>> \o StrReplace(Tail(s), old, new)
    ELSE IF Len(s) < Len(old) THEN s
         ELSE IF SubSeq(s, 1, Len(old)) = old
              THEN new \o StrReplace(SubSeq(s, Len(old) + 1, Len(s)), old, new)
              ELSE <<s[1]>> \o StrReplace(Tail(s), old, new)

\* McpClient.py 326: if normalized_original in normalized_content
BuggyFuzzyFound(normalized_original, normalized_content) == TRUE

FuzzyFound(normalized_original, normalized_content) ==
    Contains(normalized_original, normalized_content)

\* McpClient.py 329-332: the pattern is the escaped normalized fragment with
\* every escaped blank turned into \s+, searched in the normalized content,
\* whose blanks are single: it matches wherever the fragment itself occurs
\* (the empty pattern matches everywhere).
RegexMatches(normalized_original, normalized_content) ==
    Contains(normalized_original, normalized_content)

\* McpClient.py 334-338: the first physical line whose normalized form holds
\* the normalized fragment becomes original_code; without such a line
\* original_code stays what it was.
EffectiveOriginal(content, original_code) ==
    LET normalized_original == Normalize(original_code)
        lines == SplitLines(content, <<>>)
        hits  == {i \in DOMAIN lines :
                     Contains(normalized_original, Normalize(lines[i]))}
    IN  IF hits = {} THEN original_code
        ELSE lines[CHOOSE i \in hits : \A j \in hits : i <= j]

\* McpClient.py 317-357 for one fix whose file was found and read: the new
\* content of the file and whether the fix counted as applied (the file
\* written, success_count incremented) or was skipped (line 342).
ApplyOne(content, original_code, fixed_code) ==
    IF Contains(original_code, content)
    THEN [content |-> StrReplace(content, original_code, fixed_code),
          outcome |-> "applied"]
    ELSE IF FuzzyFound(Normalize(original_code), Normalize(content))
         THEN IF RegexMatches(Normalize(original_code), Normalize(content))
              THEN [content |-> StrReplace(content,
                                           EffectiveOriginal(content,
                                                             original_code),
                                           fixed_code),
                    outcome |-> "applied"]
              ELSE [content |-> StrReplace(content, original_code, fixed_code),
                    outcome |-> "applied"]
         ELSE [content |-> content, outcome |-> "skipped"]

\* ------------------------------------------------ patcher: files and paths
\*
\* A path is a sequence of parts relative to the project root: "s" is the
\* directory name src, "l" another directory name (lib), "F" a file name
\* (Foo.php) and "/" the separator, so that <<"s", "/">> is the text 'src/'
\* and no other run of parts holds that text.  os.path.join(root, p) of a
\* relative p is p under the root; os.path.join(root, 'src', p) is 'src/' p.
\* A path that starts with the separator is absolute, "o" being a directory
\* of the file system root other than the project root, and ".." is the
\* parent-directory segment.

SrcDir == <<"s", "/">>

IsAbs(path) == path # <<>> /\ path[1] = "/"

\* os.path.join(root, ..., p), dir being what stands between the root and p:
\* an absolute p discards everything before it.
JoinPath(dir, path) == IF IsAbs(path) THEN path ELSE dir \o path

\* McpClient.py 296-301
PossiblePaths(file_path) ==
    <<JoinPath(<<>>, file_path),
      JoinPath(SrcDir, file_path),
      JoinPath(<<>>, StrReplace(file_path, SrcDir, <<>>)),
      JoinPath(SrcDir, StrReplace(file_path, SrcDir, <<>>))>>

\* The files named by the fixes tried, and every path apply_fixes may test
\* for them.
FixPaths == {<<"F">>, <<"s", "/", "F">>, <<"l", "/", "s", "/", "F">>}

DiskPaths ==
    UNION {{PossiblePaths(f)[i] : i \in 1..4} : f \in FixPaths}

Absent == [exists |-> FALSE, content |-> <<>>]

FileWith(content) == [exists |-> TRUE, content |-> content]

\* os.path.isfile
IsFile(d, path) == path \in DOMAIN d /\ d[path].exists

NoPath == <<>>

\* McpClient.py 304-308: the first path that exists, NoPath for none
RECURSIVE FirstExisting(_, _)
FirstExisting(d, paths) ==
    IF paths = <<>> THEN NoPath
    ELSE IF IsFile(d, Head(paths)) THEN Head(paths)
    ELSE FirstExisting(d, Tail(paths))

\* McpClient.py 317-318: the content is read from the file at the time the
\* fix is processed; cached is the content the files had when apply_fixes
\* was called.
BuggyReadFile(d, cached, path) == cached[path].content

ReadFile(d, cached, path) == d[path].content

\* What open(), read() and write() may raise.
Exceptions == {"PermissionError", "OSError", "UnicodeDecodeError"}

\* McpClient.py 359: except Exception
BuggyCaught(exc) == exc # "UnicodeDecodeError"

Caught(exc) == exc \in Exceptions

\* McpClient.py 363: return success_count > 0
BuggySucceeded(n) == n >= 0

Succeeded(n) == n > 0

\* The fixes tried on a file "a b": two that match different fragments, one
\* whose fragment is not in the file, one for a file that does not exist and
\* one without a file name.
MkFix(file_path, original_code, fixed_code) ==
    [file |-> file_path, original_code |-> original_code,
     fixed_code |-> fixed_code]

FixChoices ==
    {MkFix(<<"F">>, <<"a">>, <<"c">>),
     MkFix(<<"F">>, <<"b">>, <<"d">>),
     MkFix(<<"F">>, <<"z">>, <<"c">>),
     MkFix(<<"l", "/", "s", "/", "F">>, <<"a">>, <<"c">>),
     MkFix(<<>>, <<"a">>, <<"c">>)}

\* ------------------------------------------------------------------ parser
\*
\* A report is a sequence of lines, each ended by a line break.  The patterns
\* of parse_phpstan_output tell seven kinds of line apart:
\*   rule   " ------ ---------- "          (matches  +------ +-+ + )
\*   head   "  Line   A.php "              (matches  +Line +([^\n]+) + )
\*   row    "  1     Undefined variable"   (matches  +(\d+) +([^\n]+) )
\*   code   "         (id)  variable.undefined"  (the identifier line)
\*   tip    "         (tip)  hint"                (the suggestion line)
\*   junk   a line that matches none of the patterns
\*   blank  an empty line
\* An error code is a sequence of tokens, its text being their concatenation;
\* no token holds a keyword of _determine_error_type except as a whole, and
\* the keyword "not.found" is the three tokens "not", ".", "found".

RuleLine == [kind |-> "rule", text |-> "", num |-> 0, code |-> <<>>]

HeadLine(f) == [kind |-> "head", text |-> f, num |-> 0, code |-> <<>>]

RowLine(n, msg) == [kind |-> "row", text |-> msg, num |-> n, code |-> <<>>]

CodeLine(c) == [kind |-> "code", text |-> "", num |-> 0, code |-> c]

TipLine == [kind |-> "tip", text |-> "hint", num |-> 0, code |-> <<>>]

JunkLine == [kind |-> "junk", text |-> "", num |-> 0, code |-> <<>>]

BlankLine == [kind |-> "blank", text |-> "", num |-> 0, code |-> <<>>]

CodeTokens ==
    {"undefined", "Undefined", "type", "missing", "not", ".", "found",
     "arguments", "x"}

\* str.lower(), token by token
LowerToken(t) == IF t = "Undefined" THEN "undefined" ELSE t

Lower(c) == [i \in 1..Len(c) |-> LowerToken(c[i])]

\* Formatter.py 108-130: _determine_error_type; the message is not looked at.
BuggyDetermineErrorType(message, error_code) ==
    IF Contains(<<"type">>, Lower(error_code)) THEN "type_error"
    ELSE IF Contains(<<"undefined">>, Lower(error_code)) THEN "undefined_symbol"
    ELSE IF Contains(<<"missing">>, Lower(error_code)) THEN "missing_type"
    ELSE IF Contains(<<"not", ".", "found">>, Lower(error_code)) THEN "not_found"
    ELSE IF Contains(<<"arguments">>, Lower(error_code)) THEN "argument_error"
    ELSE "other"

DetermineErrorType(message, error_code) ==
    IF Contains(<<"undefined">>, Lower(error_code)) THEN "undefined_symbol"
    ELSE IF Contains(<<"type">>, Lower(error_code)) THEN "type_error"
    ELSE IF Contains(<<"missing">>, Lower(error_code)) THEN "missing_type"
    ELSE IF Contains(<<"not", ".", "found">>, Lower(error_code)) THEN "not_found"
    ELSE IF Contains(<<"arguments">>, Lower(error_code)) THEN "argument_error"
    ELSE "other"

\* Formatter.py 75-76, the head of the section pattern: a rule line, a head
\* line and a rule line, starting at line i.
IsHeaderAt(lines, i) ==
    /\ i + 2 <= Len(lines)
    /\ lines[i].kind = "rule"
    /\ lines[i + 1].kind = "head"
    /\ lines[i + 2].kind = "rule"

\* The first line at or after k where a section head starts, 0 for none
\* (re.findall scans from left to right).
RECURSIVE FindHeader(_, _)
FindHeader(lines, k) ==
    IF k > Len(lines) THEN 0
    ELSE IF IsHeaderAt(lines, k) THEN k
    ELSE FindHeader(lines, k + 1)

\* Formatter.py 76, (.*?)(?=\n +------ +-|$): the content that starts with
\* line j ends with the first line at or after j that is followed by a rule
\* line or is the last one.  The look-ahead starts at a line break, so line j
\* itself is content whatever it is, a rule line included.
RECURSIVE ContentEnd(_, _)
ContentEnd(lines, j) ==
    IF j >= Len(lines) THEN Len(lines)
    ELSE IF lines[j + 1].kind = "rule" THEN j
    ELSE ContentEnd(lines, j + 1)

\* Formatter.py 83-104: the rows of one section content, from line t on.  A
\* row counts only when the identifier line follows it at once; a suggestion
\* line right after that is taken along.
RECURSIVE ParseRows(_, _, _)
ParseRows(content, t, file_name) ==
    IF t >= Len(content) THEN <<>>
    ELSE IF content[t].kind = "row" /\ content[t + 1].kind = "code"
         THEN LET tip == t + 2 <= Len(content) /\ content[t + 2].kind = "tip"
              IN  <<[message    |-> content[t].text,
                     file       |-> file_name,
                     line       |-> content[t].num,
                     error_type |-> DetermineErrorType(content[t].text,
                                                       content[t + 1].code),
                     error_code |-> content[t + 1].code,
                     suggestion |-> IF tip THEN content[t + 2].text ELSE None]>>
                  \o ParseRows(content, IF tip THEN t + 3 ELSE t + 2, file_name)
         ELSE ParseRows(content, t + 1, file_name)

\* Formatter.py 74-80: the sections found from line k on, each with the rows
\* found in its content; the scan for the next section resumes after the
\* content of the one just matched.
RECURSIVE ParseSections(_, _)
ParseSections(lines, k) ==
    LET i == FindHeader(lines, k)
    IN  IF i = 0 THEN <<>>
        ELSE LET j == IF i + 3 > Len(lines) THEN i + 2
                      ELSE ContentEnd(lines, i + 3)
             IN  ParseRows(SubSeq(lines, i + 3, j), 1, lines[i + 1].text)
                 \o ParseSections(lines, j + 1)

\* Formatter.py 62-106
ParsePhpstanOutput(output) == ParseSections(output, 1)

\* The reports parsed.  A section is the three head lines, a body and a
\* closing; a body is made of well-formed rows (row line and identifier line,
\* with or without a suggestion line), rows whose identifier line is missing
\* and lines that are no row at all.
Messages == {"Undefined variable", "Other problem"}

BodyChunks ==
    {<<RowLine(1, "Undefined variable"), CodeLine(<<"x", ".", "undefined">>)>>,
     <<RowLine(2, "Other problem"), CodeLine(<<"x">>), TipLine>>,
     <<RowLine(2, "Other problem")>>,
     <<JunkLine>>}

Closings == {"none", "rule", "rule_blank"}

RECURSIVE Concat(_)
Concat(ss) == IF ss = <<>> THEN <<>> ELSE Head(ss) \o Concat(Tail(ss))

SectionsOf(f) ==
    {[file |-> f, body |-> b, closing |-> c] :
        b \in SeqsUpTo(BodyChunks, MaxBodyLen), c \in Closings}

SectionLines(sec) ==
    <<RuleLine, HeadLine(sec.file), RuleLine>>
    \o Concat(sec.body)
    \o (IF sec.closing = "none" THEN <<>>
        ELSE IF sec.closing = "rule" THEN <<RuleLine>>
        ELSE <<RuleLine, BlankLine>>)

ReportLines(secs) == Concat([k \in 1..Len(secs) |-> SectionLines(secs[k])])

\* ---------------------------------------------------------------- Analyzer

\* Exit codes of the analyzer process: 0 clean, 1 errors found or tool failure
\* (the code only ever tests for 0).
ReturnCodes == {0, 1}

\* The records the parser extracts from a report with n error rows.
ReportOf(n) ==
    [i \in 1..n |-> MkError(IF (i % 2) = 1 THEN "A.php" ELSE "B.php",
                            (((i - 1) \div 2) % 2) + 1)]

\* ------------------------------------------------------------------- state

VARIABLES
    max_iterations,              \* IncrementalProcessor.max_iterations
    max_errors_per_batch,        \* IncrementalProcessor.max_errors_per_batch
    pc,                          \* position inside process()
    iteration,                   \* local of process()
    total_errors_fixed,          \* local of process()
    errors_fixed_this_iteration, \* local of process()
    return_code,                 \* local of process()
    batches,                     \* local of process()
    batch_idx,                   \* local of process()
    response,                    \* local of process()
    stats,                       \* IncrementalProcessor.stats
    result,                      \* what process() returned: "True", "False"
    exit_line,                   \* the return statement taken (line number)
    analyzer_calls,              \* history: runs of the analyzer
    parse_calls,                 \* history: calls of parse_phpstan_output
    fixer_calls,                 \* history: calls of send_to_claude
    dispatched,                  \* history: batch indexes sent, this iteration
    handled,                     \* history: replies handled, this iteration
    error_reply_seen,            \* history: an "error" reply, this iteration
    applied_this_iteration,      \* history: files written, this iteration
    fixer_all_empty,             \* history: every reply so far had no fixes
    plan_errors,                 \* planner input: the error list
    plan_batches,                \* planner output so far
    plan_pc,                     \* position of the planner and its consumer
    patch_content,               \* patcher: the content of the target file
    patch_before,                \* history: the content before the last fix
    patch_original,              \* patcher: original_code of the proposal
    patch_fixed,                 \* patcher: fixed_code of the proposal
    patch_count,                 \* history: times the proposal was processed
    patch_outcome,               \* history: "applied" or "skipped", last time
    parse_call,                  \* one call of parse_phpstan_output
    apply_call,                  \* one call of apply_fixes, with the disk
    handler,                     \* a ClaudeCodeMcpHandler and its commands
    run_pair                     \* the two loops run on one environment

configVars == <<max_iterations, max_errors_per_batch>>

loopVars == <<pc, iteration, total_errors_fixed, errors_fixed_this_iteration,
              return_code, batches, batch_idx, response, stats, result,
              exit_line>>

histVars == <<analyzer_calls, parse_calls, fixer_calls, dispatched, handled,
              error_reply_seen, applied_this_iteration,
              fixer_all_empty>>

planVars == <<plan_errors, plan_batches, plan_pc>>

patchVars == <<patch_content, patch_before, patch_original, patch_fixed,
               patch_count, patch_outcome>>

\* parse_call, while parse_phpstan_output is followed, is the record of
\*   pc        "input" or "parsed"
\*   output    the parameter: the report, line by line
\*   sections  history: the sections the report was made of
\*   errors    the list of records returned
\* and apply_call, while apply_fixes is followed, the record of
\*   pc             "call", "loop", "returned" or "raised"
\*   fixes          the parameter
\*   fix_idx        the number of fixes taken from the list so far
\*   success_count  the local of that name
\*   disk           the files under the project root
\*   disk_before    history: the files when apply_fixes was called
\*   log            history: what became of each fix, in order
\*   result         what apply_fixes returned: "True" or "False"
\* Both are the record of pc "none" alone while another part is followed.
parseVars == <<parse_call>>

fixVars == <<apply_call>>

handlerVars == <<handler>>

pairVars == <<run_pair>>

vars == <<configVars, loopVars, histVars, planVars, patchVars, parseVars,
          fixVars, handlerVars, pairVars>>

\* -------------------------------------------------- conditions of process()

\* incremental_processor.py 81: while iteration < self.max_iterations
BuggyLoopGuard(i, n) == i <= n

LoopGuard(i, n) == i < n

\* McpClient.py 70: if return_code == 0: return output, return_code, []
BuggyEarlyReturn(rc) == FALSE

EarlyReturn(rc) == rc = 0

\* incremental_processor.py 90: if return_code == 0
NoErrors(rc) == rc = 0

\* incremental_processor.py 92: self.stats["iterations"] = iteration + 1
BuggyDoneIterations(i) == i

DoneIterations(i) == i + 1

\* incremental_processor.py 116: if "fixes" in response and response["fixes"]
HasFixes(r) == r.fixes # <<>>

\* incremental_processor.py 103: enumerate(batches) moves to the next index
BuggyNextBatchIdx(i) == i + 2

NextBatchIdx(i) == i + 1

\* incremental_processor.py 141: if errors_fixed_this_iteration == 0
BuggyStuck(fixed) == FALSE

Stuck(fixed) == fixed = 0

\* incremental_processor.py 185-199: _update_error_stats, errors_by_type being
\* a dict that gets a key the first time a type is counted.
BuggyCountType(by_type, t) == (t :> 1) @@ by_type

CountType(by_type, t) ==
    IF t \in DOMAIN by_type
    THEN [by_type EXCEPT ![t] = @ + 1]
    ELSE (t :> 1) @@ by_type

RECURSIVE CountTypes(_, _)
CountTypes(by_type, entries) ==
    IF entries = <<>> THEN by_type
    ELSE CountTypes(CountType(by_type, entries[1].error_type), Tail(entries))

UpdateErrorStats(by_type, batch) ==
    CountTypes(by_type, FlattenDict(batch.errors_by_file))

\* ----------------------------------------------------------------- initial

\* IncrementalProcessor.__init__ (incremental_processor.py 41-61) and the
\* locals of process() before the loop (78-79).
InitStats ==
    [iterations |-> 0, total_errors_fixed |-> 0,
     total_batches_processed |-> 0, errors_by_type |-> <<>>]

LoopIdle ==
    /\ pc = "while"
    /\ iteration = 0
    /\ total_errors_fixed = 0
    /\ errors_fixed_this_iteration = 0
    /\ return_code = 0
    /\ batches = <<>>
    /\ batch_idx = 0
    /\ response = NoResponse
    /\ stats = InitStats
    /\ result = None
    /\ exit_line = 0
    /\ analyzer_calls = 0
    /\ parse_calls = 0
    /\ fixer_calls = 0
    /\ dispatched = <<>>
    /\ handled = 0
    /\ error_reply_seen = FALSE
    /\ applied_this_iteration = 0
    /\ fixer_all_empty = TRUE

PlanIdle ==
    /\ plan_errors = <<>>
    /\ plan_batches = <<>>
    /\ plan_pc = "none"

PatchIdle ==
    /\ patch_content = <<>>
    /\ patch_before = <<>>
    /\ patch_original = <<>>
    /\ patch_fixed = <<>>
    /\ patch_count = 0
    /\ patch_outcome = "none"

ParseIdle == parse_call = [pc |-> "none"]

FixIdle == apply_call = [pc |-> "none"]

HandlerIdle == handler = [pc |-> "none"]

PairIdle == run_pair = [pc |-> "none"]

Init ==
    /\ max_iterations \in 0..MaxIter
    /\ max_errors_per_batch \in 1..MaxBatch
    /\ LoopIdle
    /\ PlanIdle
    /\ PatchIdle
    /\ ParseIdle
    /\ FixIdle
    /\ HandlerIdle
    /\ PairIdle

\* ------------------------------------------------------ process(), by step

Returned == pc = "returned"

\* incremental_processor.py 81: the loop test, true
WhileEnter ==
    /\ pc = "while"
    /\ LoopGuard(iteration, max_iterations)
    /\ pc' = "analyse"
    /\ UNCHANGED <<iteration, total_errors_fixed, errors_fixed_this_iteration,
                   return_code, batches, batch_idx, response, stats, result,
                   exit_line>>
    /\ UNCHANGED <<configVars, histVars, planVars, patchVars, parseVars,
                   fixVars, handlerVars, pairVars>>

\* incremental_processor.py 81, 153-160: the loop test, false
WhileExit ==
    /\ pc = "while"
    /\ ~LoopGuard(iteration, max_iterations)
    /\ stats' = [stats EXCEPT !.iterations = max_iterations,
                              !.total_errors_fixed = total_errors_fixed]
    /\ result' = "False"
    /\ exit_line' = 160
    /\ pc' = "returned"
    /\ UNCHANGED <<iteration, total_errors_fixed, errors_fixed_this_iteration,
                   return_code, batches, batch_idx, response>>
    /\ UNCHANGED <<configVars, histVars, planVars, patchVars, parseVars,
                   fixVars, handlerVars, pairVars>>

\* incremental_processor.py 85-87 with McpClient.run_phpstan_analysis
\* (McpClient.py 66-85): the analyzer runs; a zero exit code returns no batch
\* without parsing, any other has the report parsed and cut into batches.
RunPhpstanAnalysis ==
    /\ pc = "analyse"
    /\ \E rc \in ReturnCodes, n \in 0..MaxErrors :
         /\ return_code' = rc
         /\ IF EarlyReturn(rc)
            THEN /\ batches' = <<>>
                 /\ parse_calls' = parse_calls
            ELSE /\ batches' = PlanBatches(ReportOf(n), max_errors_per_batch)
                 /\ parse_calls' = parse_calls + 1
    /\ analyzer_calls' = analyzer_calls + 1
    /\ dispatched' = <<>>
    /\ handled' = 0
    /\ error_reply_seen' = FALSE
    /\ applied_this_iteration' = 0
    /\ pc' = "check_rc"
    /\ UNCHANGED <<iteration, total_errors_fixed, errors_fixed_this_iteration,
                   batch_idx, response, stats, result, exit_line>>
    /\ UNCHANGED <<fixer_calls, fixer_all_empty>>
    /\ UNCHANGED <<configVars, planVars, patchVars, parseVars, fixVars,
                   handlerVars, pairVars>>

\* incremental_processor.py 90-94: exit code 0 ends the run with True
ReturnDone ==
    /\ pc = "check_rc"
    /\ NoErrors(return_code)
    /\ stats' = [stats EXCEPT !.iterations = DoneIterations(iteration),
                              !.total_errors_fixed = total_errors_fixed]
    /\ result' = "True"
    /\ exit_line' = 94
    /\ pc' = "returned"
    /\ UNCHANGED <<iteration, total_errors_fixed, errors_fixed_this_iteration,
                   return_code, batches, batch_idx, response>>
    /\ UNCHANGED <<configVars, histVars, planVars, patchVars, parseVars,
                   fixVars, handlerVars, pairVars>>

\* incremental_processor.py 96-101: errors were reported, the batch loop starts
StartBatches ==
    /\ pc = "check_rc"
    /\ ~NoErrors(return_code)
    /\ errors_fixed_this_iteration' = 0
    /\ batch_idx' = 0
    /\ pc' = "for"
    /\ UNCHANGED <<iteration, total_errors_fixed, return_code, batches,
                   response, stats, result, exit_line>>
    /\ UNCHANGED <<configVars, histVars, planVars, patchVars, parseVars,
                   fixVars, handlerVars, pairVars>>

\* incremental_processor.py 103-113: the next batch is sent to the Fixer
SendToClaude ==
    /\ pc = "for"
    /\ batch_idx < Len(batches)
    /\ \E r \in Responses :
         /\ response' = r
         /\ fixer_all_empty' = (fixer_all_empty /\ r.fixes = <<>>)
    /\ fixer_calls' = fixer_calls + 1
    /\ dispatched' = Append(dispatched, batches[batch_idx + 1].batch.index)
    /\ pc' = "apply"
    /\ UNCHANGED <<iteration, total_errors_fixed, errors_fixed_this_iteration,
                   return_code, batches, batch_idx, stats, result, exit_line>>
    /\ UNCHANGED <<analyzer_calls, parse_calls, handled, error_reply_seen,
                   applied_this_iteration>>
    /\ UNCHANGED <<configVars, planVars, patchVars, parseVars, fixVars,
                   handlerVars, pairVars>>

\* incremental_processor.py 116-123, 130-135: fixes came back and apply_fixes
\* reported success
ApplySucceeded ==
    /\ pc = "apply"
    /\ HasFixes(response)
    /\ ApplyFixes(response.fixes)
    /\ applied_this_iteration' =
           applied_this_iteration + SuccessCount(response.fixes)
    /\ errors_fixed_this_iteration' =
           errors_fixed_this_iteration + Len(response.fixes)
    /\ stats' = [stats EXCEPT
                   !.errors_by_type = UpdateErrorStats(@, batches[batch_idx + 1]),
                   !.total_batches_processed = @ + 1]
    /\ handled' = handled + 1
    /\ response' = NoResponse
    /\ batch_idx' = NextBatchIdx(batch_idx)
    /\ pc' = "for"
    /\ UNCHANGED <<iteration, total_errors_fixed, return_code, batches,
                   result, exit_line>>
    /\ UNCHANGED <<analyzer_calls, parse_calls, fixer_calls, dispatched,
                   error_reply_seen, fixer_all_empty>>
    /\ UNCHANGED <<configVars, planVars, patchVars, parseVars, fixVars,
                   handlerVars, pairVars>>

\* incremental_processor.py 116-126: fixes came back and apply_fixes reported
\* failure (every fix was skipped): process() returns False on the spot
ApplyFailed ==
    /\ pc = "apply"
    /\ HasFixes(response)
    /\ ~ApplyFixes(response.fixes)
    /\ applied_this_iteration' =
           applied_this_iteration + SuccessCount(response.fixes)
    /\ handled' = handled + 1
    /\ response' = NoResponse
    /\ result' = "False"
    /\ exit_line' = 126
    /\ pc' = "returned"
    /\ UNCHANGED <<iteration, total_errors_fixed, errors_fixed_this_iteration,
                   return_code, batches, batch_idx, stats>>
    /\ UNCHANGED <<analyzer_calls, parse_calls, fixer_calls, dispatched,
                   error_reply_seen, fixer_all_empty>>
    /\ UNCHANGED <<configVars, planVars, patchVars, parseVars, fixVars,
                   handlerVars, pairVars>>

\* incremental_processor.py 127-135: no fixes in the reply (an empty list, an
\* "error" or a "partial_success" reply)
NoFixesSuggested ==
    /\ pc = "apply"
    /\ ~HasFixes(response)
    /\ stats' = [stats EXCEPT !.total_batches_processed = @ + 1]
    /\ handled' = handled + 1
    /\ error_reply_seen' = (error_reply_seen \/ response.status = "error")
    /\ response' = NoResponse
    /\ batch_idx' = NextBatchIdx(batch_idx)
    /\ pc' = "for"
    /\ UNCHANGED <<iteration, total_errors_fixed, errors_fixed_this_iteration,
                   return_code, batches, result, exit_line>>
    /\ UNCHANGED <<analyzer_calls, parse_calls, fixer_calls, dispatched,
                   applied_this_iteration, fixer_all_empty>>
    /\ UNCHANGED <<configVars, planVars, patchVars, parseVars, fixVars,
                   handlerVars, pairVars>>

\* incremental_processor.py 137-145: the batch loop is over and nothing was
\* fixed in this iteration
ReturnStuck ==
    /\ pc = "for"
    /\ ~(batch_idx < Len(batches))
    /\ Stuck(errors_fixed_this_iteration)
    /\ total_errors_fixed' = total_errors_fixed + errors_fixed_this_iteration
    /\ stats' = [stats EXCEPT !.iterations = iteration + 1,
                              !.total_errors_fixed = total_errors_fixed']
    /\ result' = "False"
    /\ exit_line' = 145
    /\ pc' = "returned"
    /\ UNCHANGED <<iteration, errors_fixed_this_iteration, return_code,
                   batches, batch_idx, response>>
    /\ UNCHANGED <<configVars, histVars, planVars, patchVars, parseVars,
                   fixVars, handlerVars, pairVars>>

\* incremental_processor.py 137-151: the batch loop is over and something was
\* fixed: the next iteration
NextIteration ==
    /\ pc = "for"
    /\ ~(batch_idx < Len(batches))
    /\ ~Stuck(errors_fixed_this_iteration)
    /\ total_errors_fixed' = total_errors_fixed + errors_fixed_this_iteration
    /\ iteration' = iteration + 1
    /\ pc' = "while"
    /\ UNCHANGED <<errors_fixed_this_iteration, return_code, batches,
                   batch_idx, response, stats, result, exit_line>>
    /\ UNCHANGED <<configVars, histVars, planVars, patchVars, parseVars,
                   fixVars, handlerVars, pairVars>>

Next ==
    \/ WhileEnter
    \/ WhileExit
    \/ RunPhpstanAnalysis
    \/ ReturnDone
    \/ StartBatches
    \/ SendToClaude
    \/ ApplySucceeded
    \/ ApplyFailed
    \/ NoFixesSuggested
    \/ ReturnStuck
    \/ NextIteration

Spec == Init /\ [][Next]_vars

\* ------------------------- McpClient.process_phpstan_errors(), by step
\*
\* The client's own loop (the one main() calls): the locals iteration,
\* return_code, batches, batch_idx and response of process_phpstan_errors are
\* held in the variables of the same names; it keeps no statistics.

ClientInit ==
    /\ max_iterations \in 0..MaxIter
    /\ max_errors_per_batch \in 1..MaxBatch
    /\ LoopIdle
    /\ PlanIdle
    /\ PatchIdle
    /\ ParseIdle
    /\ FixIdle
    /\ HandlerIdle
    /\ PairIdle

\* McpClient.py 387-389: the loop test, true
ClientWhileEnter ==
    /\ pc = "while"
    /\ iteration < max_iterations
    /\ pc' = "analyse"
    /\ UNCHANGED <<iteration, total_errors_fixed, errors_fixed_this_iteration,
                   return_code, batches, batch_idx, response, stats, result,
                   exit_line>>
    /\ UNCHANGED <<configVars, histVars, planVars, patchVars, parseVars,
                   fixVars, handlerVars, pairVars>>

\* McpClient.py 389, 424-426: the loop test, false
ClientWhileExit ==
    /\ pc = "while"
    /\ ~(iteration < max_iterations)
    /\ result' = "False"
    /\ exit_line' = 426
    /\ pc' = "returned"
    /\ UNCHANGED <<iteration, total_errors_fixed, errors_fixed_this_iteration,
                   return_code, batches, batch_idx, response, stats>>
    /\ UNCHANGED <<configVars, histVars, planVars, patchVars, parseVars,
                   fixVars, handlerVars, pairVars>>

\* McpClient.py 393 with run_phpstan_analysis (McpClient.py 66-85)
ClientRunPhpstanAnalysis ==
    /\ pc = "analyse"
    /\ \E rc \in ReturnCodes, n \in 0..MaxErrors :
         /\ return_code' = rc
         /\ IF rc = 0
            THEN /\ batches' = <<>>
                 /\ parse_calls' = parse_calls
            ELSE /\ batches' = PlanBatches(ReportOf(n), max_errors_per_batch)
                 /\ parse_calls' = parse_calls + 1
    /\ analyzer_calls' = analyzer_calls + 1
    /\ dispatched' = <<>>
    /\ handled' = 0
    /\ error_reply_seen' = FALSE
    /\ applied_this_iteration' = 0
    /\ pc' = "check_rc"
    /\ UNCHANGED <<iteration, total_errors_fixed, errors_fixed_this_iteration,
                   batch_idx, response, stats, result, exit_line>>
    /\ UNCHANGED <<fixer_calls, fixer_all_empty>>
    /\ UNCHANGED <<configVars, planVars, patchVars, parseVars, fixVars,
                   handlerVars, pairVars>>

\* McpClient.py 396-398: exit code 0 ends the run with True
ClientReturnTrue ==
    /\ pc = "check_rc"
    /\ return_code = 0
    /\ result' = "True"
    /\ exit_line' = 398
    /\ pc' = "returned"
    /\ UNCHANGED <<iteration, total_errors_fixed, errors_fixed_this_iteration,
                   return_code, batches, batch_idx, response, stats>>
    /\ UNCHANGED <<configVars, histVars, planVars, patchVars, parseVars,
                   fixVars, handlerVars, pairVars>>

\* McpClient.py 400-403: errors were reported, the batch loop starts
ClientStartBatches ==
    /\ pc = "check_rc"
    /\ return_code # 0
    /\ batch_idx' = 0
    /\ pc' = "for"
    /\ UNCHANGED <<iteration, total_errors_fixed, errors_fixed_this_iteration,
                   return_code, batches, response, stats, result, exit_line>>
    /\ UNCHANGED <<configVars, histVars, planVars, patchVars, parseVars,
                   fixVars, handlerVars, pairVars>>

\* McpClient.py 403-410: the next batch is sent to the Fixer
ClientSendToClaude ==
    /\ pc = "for"
    /\ batch_idx < Len(batches)
    /\ \E r \in Responses :
         /\ response' = r
         /\ fixer_all_empty' = (fixer_all_empty /\ r.fixes = <<>>)
    /\ fixer_calls' = fixer_calls + 1
    /\ dispatched' = Append(dispatched, batches[batch_idx + 1].batch.index)
    /\ pc' = "apply"
    /\ UNCHANGED <<iteration, total_errors_fixed, errors_fixed_this_iteration,
                   return_code, batches, batch_idx, stats, result, exit_line>>
    /\ UNCHANGED <<analyzer_calls, parse_calls, handled, error_reply_seen,
                   applied_this_iteration>>
    /\ UNCHANGED <<configVars, planVars, patchVars, parseVars, fixVars,
                   handlerVars, pairVars>>

\* McpClient.py 413-415: fixes came back and apply_fixes reported success
ClientApplySucceeded ==
    /\ pc = "apply"
    /\ HasFixes(response)
    /\ ApplyFixes(response.fixes)
    /\ applied_this_iteration' =
           applied_this_iteration + SuccessCount(response.fixes)
    /\ handled' = handled + 1
    /\ response' = NoResponse
    /\ batch_idx' = batch_idx + 1
    /\ pc' = "for"
    /\ UNCHANGED <<iteration, total_errors_fixed, errors_fixed_this_iteration,
                   return_code, batches, stats, result, exit_line>>
    /\ UNCHANGED <<analyzer_calls, parse_calls, fixer_calls, dispatched,
                   error_reply_seen, fixer_all_empty>>
    /\ UNCHANGED <<configVars, planVars, patchVars, parseVars, fixVars,
                   handlerVars, pairVars>>

\* McpClient.py 413-417: fixes came back and apply_fixes reported failure:
\* process_phpstan_errors returns False on the spot
ClientApplyFailed ==
    /\ pc = "apply"
    /\ HasFixes(response)
    /\ ~ApplyFixes(response.fixes)
    /\ handled' = handled + 1
    /\ response' = NoResponse
    /\ result' = "False"
    /\ exit_line' = 417
    /\ pc' = "returned"
    /\ UNCHANGED <<iteration, total_errors_fixed, errors_fixed_this_iteration,
                   return_code, batches, batch_idx, stats>>
    /\ UNCHANGED <<analyzer_calls, parse_calls, fixer_calls, dispatched,
                   error_reply_seen, applied_this_iteration, fixer_all_empty>>
    /\ UNCHANGED <<configVars, planVars, patchVars, parseVars, fixVars,
                   handlerVars, pairVars>>

\* McpClient.py 413, 418-419: no fixes in the reply
ClientNoFixesSuggested ==
    /\ pc = "apply"
    /\ ~HasFixes(response)
    /\ handled' = handled + 1
    /\ error_reply_seen' = (error_reply_seen \/ response.status = "error")
    /\ response' = NoResponse
    /\ batch_idx' = batch_idx + 1
    /\ pc' = "for"
    /\ UNCHANGED <<iteration, total_errors_fixed, errors_fixed_this_iteration,
                   return_code, batches, stats, result, exit_line>>
    /\ UNCHANGED <<analyzer_calls, parse_calls, fixer_calls, dispatched,
                   applied_this_iteration, fixer_all_empty>>
    /\ UNCHANGED <<configVars, planVars, patchVars, parseVars, fixVars,
                   handlerVars, pairVars>>

\* McpClient.py 403, 421-422: the batch loop is over, the next iteration
ClientNextIteration ==
    /\ pc = "for"
    /\ ~(batch_idx < Len(batches))
    /\ iteration' = iteration + 1
    /\ pc' = "while"
    /\ UNCHANGED <<total_errors_fixed, errors_fixed_this_iteration,
                   return_code, batches, batch_idx, response, stats, result,
                   exit_line>>
    /\ UNCHANGED <<configVars, histVars, planVars, patchVars, parseVars,
                   fixVars, handlerVars, pairVars>>

ClientNext ==
    \/ ClientWhileEnter
    \/ ClientWhileExit
    \/ ClientRunPhpstanAnalysis
    \/ ClientReturnTrue
    \/ ClientStartBatches
    \/ ClientSendToClaude
    \/ ClientApplySucceeded
    \/ ClientApplyFailed
    \/ ClientNoFixesSuggested
    \/ ClientNextIteration

ClientSpec == ClientInit /\ [][ClientNext]_vars

\* ------------------------------------------------ apply_fixes(), by step

\* The call of apply_fixes on the list fs with the files d on the disk.
ApplyCall(fs, d) ==
    [pc |-> "call", fixes |-> fs, fix_idx |-> 0, success_count |-> 0,
     disk |-> d, disk_before |-> d, log |-> <<>>, result |-> None]

\* No fix or one fix, of any of the file names or of none, whose fragment is
\* or is not in the files, on any set of existing files, each holding "a".
ResolveInit ==
    /\ max_iterations = 0
    /\ max_errors_per_batch = 1
    /\ LoopIdle
    /\ PlanIdle
    /\ PatchIdle
    /\ ParseIdle
    /\ HandlerIdle
    /\ PairIdle
    /\ \E fs \in {<<>>} \cup {<<MkFix(f, o, <<"b">>)>> :
                               f \in FixPaths \cup {<<>>},
                               o \in {<<"a">>, <<"z">>}},
          d \in [DiskPaths -> {Absent, FileWith(<<"a">>)}] :
         apply_call = ApplyCall(fs, d)

\* Any list of fixes, on a project whose one file F holds "a b".
FixListInit ==
    /\ max_iterations = 0
    /\ max_errors_per_batch = 1
    /\ LoopIdle
    /\ PlanIdle
    /\ PatchIdle
    /\ ParseIdle
    /\ HandlerIdle
    /\ PairIdle
    /\ \E fs \in SeqsUpTo(FixChoices, MaxFixList) :
         apply_call =
             ApplyCall(fs, [q \in DiskPaths |->
                               IF q = <<"F">>
                               THEN FileWith(<<"a", " ", "b">>)
                               ELSE Absent])

\* The fix the loop is at, the path it resolves to and what the patch makes
\* of the content read.
CurrentFix == apply_call.fixes[apply_call.fix_idx + 1]

HasAllFields(fix) ==
    fix.file # <<>> /\ fix.original_code # <<>> /\ fix.fixed_code # <<>>

FullPath == FirstExisting(apply_call.disk, PossiblePaths(CurrentFix.file))

Patched ==
    ApplyOne(ReadFile(apply_call.disk, apply_call.disk_before, FullPath),
             CurrentFix.original_code, CurrentFix.fixed_code)

InLoop ==
    apply_call.pc = "loop" /\ apply_call.fix_idx < Len(apply_call.fixes)

\* The call once the loop has moved on to the next fix, noting what became
\* of this one.
BuggyLogged(call, outcome, path) ==
    [call EXCEPT !.log = Append(@, [idx |-> call.fix_idx + 1,
                                    outcome |-> outcome, path |-> path]),
                 !.fix_idx = @ + 1,
                 !.success_count = @ + 1]

Logged(call, outcome, path) ==
    [call EXCEPT !.log = Append(@, [idx |-> call.fix_idx + 1,
                                    outcome |-> outcome, path |-> path]),
                 !.fix_idx = @ + 1]

\* McpClient.py 274-276: nothing to apply
ApplyFixesNone ==
    /\ apply_call.pc = "call"
    /\ apply_call.fixes = <<>>
    /\ apply_call' = [apply_call EXCEPT !.result = "True", !.pc = "returned"]
    /\ UNCHANGED <<configVars, loopVars, histVars, planVars, patchVars,
                   parseVars,
                   handlerVars, pairVars>>

\* McpClient.py 278-282
ApplyFixesBegin ==
    /\ apply_call.pc = "call"
    /\ apply_call.fixes # <<>>
    /\ apply_call' = [apply_call EXCEPT !.success_count = 0, !.pc = "loop"]
    /\ UNCHANGED <<configVars, loopVars, histVars, planVars, patchVars,
                   parseVars,
                   handlerVars, pairVars>>

\* McpClient.py 285-292: a field is missing or empty
SkipMissingField ==
    /\ InLoop
    /\ ~HasAllFields(CurrentFix)
    /\ apply_call' = Logged(apply_call, "missing_field", NoPath)
    /\ UNCHANGED <<configVars, loopVars, histVars, planVars, patchVars,
                   parseVars,
                   handlerVars, pairVars>>

\* McpClient.py 294-314: none of the four paths exists
SkipUnresolved ==
    /\ InLoop
    /\ HasAllFields(CurrentFix)
    /\ FullPath = NoPath
    /\ apply_call' = Logged(apply_call, "unresolved", NoPath)
    /\ UNCHANGED <<configVars, loopVars, histVars, planVars, patchVars,
                   parseVars,
                   handlerVars, pairVars>>

\* McpClient.py 316-318, 359-360: opening or reading the file raises
ReadRaises ==
    /\ InLoop
    /\ HasAllFields(CurrentFix)
    /\ FullPath # NoPath
    /\ \E exc \in Exceptions :
         apply_call' = IF Caught(exc)
                       THEN Logged(apply_call, "read_error", FullPath)
                       ELSE [apply_call EXCEPT !.pc = "raised"]
    /\ UNCHANGED <<configVars, loopVars, histVars, planVars, patchVars,
                   parseVars,
                   handlerVars, pairVars>>

\* McpClient.py 320-342: the fragment is not in the content read
SkipNotFound ==
    /\ InLoop
    /\ HasAllFields(CurrentFix)
    /\ FullPath # NoPath
    /\ Patched.outcome = "skipped"
    /\ apply_call' = Logged(apply_call, "not_found", FullPath)
    /\ UNCHANGED <<configVars, loopVars, histVars, planVars, patchVars,
                   parseVars,
                   handlerVars, pairVars>>

\* McpClient.py 344-349, 359-360: opening the file for writing raises (the
\* file is as it was) or the write itself does (the file was truncated by
\* open)
WriteRaises ==
    /\ InLoop
    /\ HasAllFields(CurrentFix)
    /\ FullPath # NoPath
    /\ Patched.outcome = "applied"
    /\ \E exc \in Exceptions \ {"UnicodeDecodeError"},
          left \in {apply_call.disk[FullPath], FileWith(<<>>)} :
         LET after == [apply_call EXCEPT !.disk[FullPath] = left]
         IN  apply_call' = IF Caught(exc)
                           THEN Logged(after, "write_error", FullPath)
                           ELSE [after EXCEPT !.pc = "raised"]
    /\ UNCHANGED <<configVars, loopVars, histVars, planVars, patchVars,
                   parseVars,
                   handlerVars, pairVars>>

\* McpClient.py 344-357: the patched content is written back
FixApplied ==
    /\ InLoop
    /\ HasAllFields(CurrentFix)
    /\ FullPath # NoPath
    /\ Patched.outcome = "applied"
    /\ apply_call' =
           Logged([apply_call EXCEPT
                      !.disk[FullPath] = FileWith(Patched.content),
                      !.success_count = @ + 1],
                  "applied", FullPath)
    /\ UNCHANGED <<configVars, loopVars, histVars, planVars, patchVars,
                   parseVars,
                   handlerVars, pairVars>>

\* McpClient.py 362-363: the list is through
ApplyFixesReturn ==
    /\ apply_call.pc = "loop"
    /\ apply_call.fix_idx = Len(apply_call.fixes)
    /\ apply_call' =
           [apply_call EXCEPT
               !.result = IF Succeeded(apply_call.success_count)
                          THEN "True" ELSE "False",
               !.pc = "returned"]
    /\ UNCHANGED <<configVars, loopVars, histVars, planVars, patchVars,
                   parseVars,
                   handlerVars, pairVars>>

FixNext ==
    \/ ApplyFixesNone
    \/ ApplyFixesBegin
    \/ SkipMissingField
    \/ SkipUnresolved
    \/ ReadRaises
    \/ SkipNotFound
    \/ WriteRaises
    \/ FixApplied
    \/ ApplyFixesReturn

ResolveSpec == ResolveInit /\ [][FixNext]_vars

FixListSpec == FixListInit /\ [][FixNext]_vars

\* The file names a fix may also carry: a path through the parent of the
\* project root, an absolute path outside the project, and a path that goes
\* up and comes back.
OutsideFixPaths ==
    {<<"F">>, <<"..", "/", "G">>, <<"/", "o", "/", "G">>,
     <<"s", "/", "..", "/", "F">>}

OutsidePaths ==
    UNION {{PossiblePaths(f)[i] : i \in 1..4} : f \in OutsideFixPaths}

\* No fix or one fix, of any of these file names or of none, whose fragment
\* is or is not in the files, on any set of existing files, each holding "a".
OutsideInit ==
    /\ max_iterations = 0
    /\ max_errors_per_batch = 1
    /\ LoopIdle
    /\ PlanIdle
    /\ PatchIdle
    /\ ParseIdle
    /\ HandlerIdle
    /\ PairIdle
    /\ \E fs \in {<<>>} \cup {<<MkFix(f, o, <<"b">>)>> :
                               f \in OutsideFixPaths \cup {<<>>},
                               o \in {<<"a">>, <<"z">>}},
          d \in [OutsidePaths -> {Absent, FileWith(<<"a">>)}] :
         apply_call = ApplyCall(fs, d)

OutsideSpec == OutsideInit /\ [][FixNext]_vars

\* ------------------------------------------------- the parser on a report

\* The call of parse_phpstan_output on the report made of the sections secs.
ParseCall(secs) ==
    [pc |-> "input", output |-> ReportLines(secs), sections |-> secs,
     errors |-> <<>>]

\* Reports of no section, of a section on A.php, and of a section on A.php
\* followed by one on B.php.
ParseInit ==
    /\ max_iterations = 0
    /\ max_errors_per_batch = 1
    /\ LoopIdle
    /\ PlanIdle
    /\ PatchIdle
    /\ FixIdle
    /\ HandlerIdle
    /\ PairIdle
    /\ \E secs \in {<<>>} \cup {<<a>> : a \in SectionsOf("A.php")}
                         \cup {<<a, b>> : a \in SectionsOf("A.php"),
                                          b \in SectionsOf("B.php")} :
         parse_call = ParseCall(secs)

\* Reports of one section with one well-formed row, of any message, line and
\* error code.
ClassifyInit ==
    /\ max_iterations = 0
    /\ max_errors_per_batch = 1
    /\ LoopIdle
    /\ PlanIdle
    /\ PatchIdle
    /\ FixIdle
    /\ HandlerIdle
    /\ PairIdle
    /\ \E f \in Files, n \in Lines, msg \in Messages,
          c \in SeqsUpTo(CodeTokens, MaxCodeLen) \ {<<>>} :
         parse_call =
             ParseCall(<<[file |-> f,
                          body |-> <<<<RowLine(n, msg), CodeLine(c)>>>>,
                          closing |-> "rule_blank"]>>)

\* Formatter.py 62-106: parse_phpstan_output(output)
ParseOutput ==
    /\ parse_call.pc = "input"
    /\ parse_call' = [parse_call EXCEPT
                         !.errors = ParsePhpstanOutput(parse_call.output),
                         !.pc = "parsed"]
    /\ UNCHANGED <<configVars, loopVars, histVars, planVars, patchVars,
                   fixVars, handlerVars, pairVars>>

ParseNext == ParseOutput

ParseSpec == ParseInit /\ [][ParseNext]_vars

ClassifySpec == ClassifyInit /\ [][ParseNext]_vars

\* --------------------------------------------- the planner, batch by batch

PlanInit ==
    /\ max_iterations = 0
    /\ max_errors_per_batch \in 1..MaxPlanBatch
    /\ LoopIdle
    /\ plan_errors \in SeqsUpTo(ErrorRecords, MaxPlanLen)
    /\ plan_batches = <<>>
    /\ plan_pc = "new"
    /\ PatchIdle
    /\ ParseIdle
    /\ FixIdle
    /\ HandlerIdle
    /\ PairIdle

\* Any integer may be passed as max_errors_per_batch.
ConfigInit ==
    /\ max_iterations = 0
    /\ max_errors_per_batch \in (0 - MaxPlanBatch)..MaxPlanBatch
    /\ LoopIdle
    /\ plan_errors \in SeqsUpTo(ErrorRecords, MaxPlanLen)
    /\ plan_batches = <<>>
    /\ plan_pc = "new"
    /\ PatchIdle
    /\ ParseIdle
    /\ FixIdle
    /\ HandlerIdle
    /\ PairIdle

\* Formatter.py 53-60 (called from McpClient.py 47 and
\* incremental_processor.py 53): the argument is stored as it is.
Construct ==
    /\ plan_pc = "new"
    /\ plan_pc' = "constructed"
    /\ UNCHANGED <<plan_errors, plan_batches, configVars, loopVars, histVars,
                   patchVars, parseVars, fixVars, handlerVars, pairVars>>

\* McpClient.py 77: total_batches = get_total_batches(len(errors)); the
\* division of Formatter.py 176 raises ZeroDivisionError for a batch size 0.
ComputeTotal ==
    /\ plan_pc = "constructed"
    /\ plan_pc' = IF max_errors_per_batch = 0 THEN "ZeroDivisionError"
                                             ELSE "loop"
    /\ UNCHANGED <<plan_errors, plan_batches, configVars, loopVars, histVars,
                   patchVars, parseVars, fixVars, handlerVars, pairVars>>

PlanTotal == GetTotalBatches(Len(plan_errors), max_errors_per_batch)

\* McpClient.py 81-83: one pass of the loop over range(total_batches)
FormatNextBatch ==
    /\ plan_pc = "loop"
    /\ Len(plan_batches) < PlanTotal
    /\ plan_batches' = Append(plan_batches,
                              FormatForMcp(plan_errors, Len(plan_batches),
                                           max_errors_per_batch))
    /\ UNCHANGED <<plan_errors, plan_pc, configVars, loopVars, histVars,
                   patchVars, parseVars, fixVars, handlerVars, pairVars>>

PlanDone == Len(plan_batches) = PlanTotal

\* simple_client.py 117-118, tui_client.py 350-351: the keys a consumer reads
\* from batch["batch"]
FixBatchKeys == {"index", "total"}

\* SimpleClient.fix_batch (simple_client.py 107-120) on one of the batches
\* run_phpstan_analysis returned: a missing key raises KeyError.
FixBatch ==
    /\ plan_pc = "loop"
    /\ ~(Len(plan_batches) < PlanTotal)
    /\ \E b \in DOMAIN plan_batches :
         plan_pc' = IF FixBatchKeys \subseteq DOMAIN plan_batches[b].batch
                    THEN "fix_batch"
                    ELSE "KeyError"
    /\ UNCHANGED <<plan_errors, plan_batches, configVars, loopVars, histVars,
                   patchVars, parseVars, fixVars, handlerVars, pairVars>>

PlanNext ==
    \/ Construct
    \/ ComputeTotal
    \/ FormatNextBatch
    \/ FixBatch

PlanSpec == PlanInit /\ [][PlanNext]_vars

ConfigSpec == ConfigInit /\ [][PlanNext]_vars

\* ------------------------------------------- the patcher, one fix on a file

\* A file content and a fix proposal with a non-empty original_code and
\* fixed_code (McpClient.py 290 skips any other).
PatchInit ==
    /\ max_iterations = 0
    /\ max_errors_per_batch = 1
    /\ LoopIdle
    /\ PlanIdle
    /\ patch_content \in Strings(MaxContentLen)
    /\ patch_before = <<>>
    /\ patch_original \in Strings(MaxFragLen) \ {<<>>}
    /\ patch_fixed \in FixedCodes
    /\ patch_count = 0
    /\ patch_outcome = "none"
    /\ ParseIdle
    /\ FixIdle
    /\ HandlerIdle
    /\ PairIdle

\* McpClient.py 282-357: apply_fixes processes the proposal against the file
\* (a first time, and once more on the content it left).
ApplyFix ==
    /\ patch_count < 2
    /\ LET r == ApplyOne(patch_content, patch_original, patch_fixed)
       IN  /\ patch_content' = r.content
           /\ patch_outcome' = r.outcome
    /\ patch_before' = patch_content
    /\ patch_count' = patch_count + 1
    /\ UNCHANGED <<patch_original, patch_fixed>>
    /\ UNCHANGED <<configVars, loopVars, histVars, planVars, parseVars,
                   fixVars, handlerVars, pairVars>>

PatchNext == ApplyFix

PatchSpec == PatchInit /\ [][PatchNext]_vars

\* ------------------------------------------- ClaudeCodeMcpHandler, commands
\*
\* handler, while a ClaudeCodeMcpHandler is followed, is the record of
\*   pc                 "ready"
\*   current_batches, current_batch_idx, total_errors, fixed_errors
\*                      the attributes of those names
\*   commands           history: the number of commands handled
\*   reported           history: the error entries of the last analysis
\*   last               history: the last command, its arguments, the status
\*                      and message of its response, the errors a run_phpstan
\*                      found, the calls it made of the Analyzer, of the
\*                      Fixer and of apply_fixes, and the batch it sent
\* and the record of pc "none" alone while another part is followed.

\* The arguments of a command.  A key that is absent is the empty sequence,
\* a key that is present the sequence of its value; error_indices is held as
\* the set of its members (the code only tests membership).
BatchIndexArgs == {<<>>} \cup {<<i>> : i \in {-1, 0, 1, MaxErrors}}

ErrorIndicesArgs == {<<>>} \cup {<<S>> : S \in {{}, {0}, {0, 1}, {9}}}

CommandArgs ==
    [batch_index : BatchIndexArgs, error_indices : ErrorIndicesArgs]

NoArgs == [batch_index |-> <<>>, error_indices |-> <<>>]

NoCommand ==
    [command |-> "none", args |-> NoArgs, status |-> "none",
     message |-> "none", errors |-> 0, analyzer_calls |-> 0,
     fixer_calls |-> 0, apply_calls |-> 0, sent |-> <<>>]

\* claude_code_mcp.py 37-41: the state of a new handler
InitialState(h) ==
    [h EXCEPT !.current_batches = <<>>, !.current_batch_idx = 0,
              !.total_errors = 0, !.fixed_errors = 0]

NewHandler ==
    [pc |-> "ready", current_batches |-> <<>>, current_batch_idx |-> 0,
     total_errors |-> 0, fixed_errors |-> 0, commands |-> 0,
     reported |-> <<>>, last |-> NoCommand]

\* McpClient.py 66-85: the batches of an analysis that exits with rc and
\* whose report holds n error rows.
RunAnalysis(rc, n, m) ==
    IF EarlyReturn(rc) THEN <<>> ELSE PlanBatches(ReportOf(n), m)

\* claude_code_mcp.py 93, 188: the error entries of all the batches
CountErrors(bs) == Len(FlattenBatches(bs))

\* Python's truth value of a dict: it has a key.
Truthy(dict) == DOMAIN dict # {}

\* claude_code_mcp.py 340-349: the errors of the files, dict order, each with
\* its position in the list, n being the length of the list so far.
RECURSIVE ErrorsOfFiles(_, _)
ErrorsOfFiles(d, n) ==
    IF d = <<>> THEN <<>>
    ELSE [k \in 1..Len(d[1].errors) |->
             [file    |-> d[1].file,
              line    |-> d[1].errors[k].line,
              message |-> d[1].errors[k].message,
              index   |-> n + k - 1]]
         \o ErrorsOfFiles(Tail(d), n + Len(d[1].errors))

\* claude_code_mcp.py 330-351
GetErrorsFromBatch(batch) == ErrorsOfFiles(batch.errors_by_file, 0)

\* claude_code_mcp.py 383-386: the first error of the file in the batch with
\* the line and the message, as a list of one, or of none.
OriginalError(batch, error) ==
    LET i    == CHOOSE j \in DOMAIN batch.errors_by_file :
                    batch.errors_by_file[j].file = error.file
        es   == batch.errors_by_file[i].errors
        hits == {k \in DOMAIN es : /\ es[k].line = error.line
                                   /\ es[k].message = error.message}
    IN  IF hits = {} THEN <<>>
        ELSE <<es[CHOOSE k \in hits : \A l \in hits : k <= l]>>

\* claude_code_mcp.py 377-386: one pass of the grouping loop
FilterInsert(d, batch, error) ==
    IF \E i \in DOMAIN d : d[i].file = error.file
    THEN LET i == CHOOSE j \in DOMAIN d : d[j].file = error.file
         IN  [d EXCEPT ![i].errors = @ \o OriginalError(batch, error)]
    ELSE Append(d, [file   |-> error.file,
                    errors |-> OriginalError(batch, error)])

RECURSIVE FilterGroup(_, _)
FilterGroup(filtered_errors, batch) ==
    IF filtered_errors = <<>> THEN <<>>
    ELSE FilterInsert(FilterGroup(SubSeq(filtered_errors, 1,
                                         Len(filtered_errors) - 1), batch),
                      batch, filtered_errors[Len(filtered_errors)])

\* claude_code_mcp.py 353-388
FilterBatchByIndices(batch, indices) ==
    LET all_errors      == GetErrorsFromBatch(batch)
        filtered_errors == SelectSeq(all_errors,
                                     LAMBDA error : error.index \in indices)
    IN  [batch          |-> batch.batch,
         errors_by_file |-> FilterGroup(filtered_errors, batch)]

\* The handler once it has answered a command.
Replied(h, command, args, status, message) ==
    [h EXCEPT !.commands = @ + 1,
              !.last = [NoCommand EXCEPT !.command = command, !.args = args,
                                         !.status = status,
                                         !.message = message]]

\* claude_code_mcp.py 136, 221, 260: args.get("batch_index",
\* self.current_batch_idx)
BuggyBatchIdxOf(h, args) == h.current_batch_idx

BatchIdxOf(h, args) ==
    IF args.batch_index = <<>> THEN h.current_batch_idx
    ELSE args.batch_index[1]

\* claude_code_mcp.py 147, 232, 270
InvalidBatchIdx(idx, bs) == idx < 0 \/ idx >= Len(bs)

\* claude_code_mcp.py 185
BuggyNewBatchIdx(idx, bs) == IF bs # <<>> THEN idx ELSE 0

NewBatchIdx(idx, bs) ==
    IF bs # <<>> THEN Min(idx, Len(bs) - 1) ELSE 0

\* claude_code_mcp.py 68-124
HandleRunPhpstan(h, args, rc, n, m) ==
    LET bs == RunAnalysis(rc, n, m)
        h1 == [h EXCEPT !.current_batches = bs,
                        !.current_batch_idx = 0,
                        !.total_errors = CountErrors(bs),
                        !.reported = FlattenBatches(bs)]
        r  == Replied(h1, "run_phpstan", args, "success",
                      IF rc = 0 THEN "no_errors_found" ELSE "found_errors")
    IN  [r EXCEPT !.last.errors = CountErrors(bs),
                  !.last.analyzer_calls = 1]

\* claude_code_mcp.py 126-209; r is the response of the Fixer, rc and n the
\* outcome of the analysis run after the fixes.
HandleFixErrors(h, args, r, rc, n, m) ==
    LET idx == BatchIdxOf(h, args) IN
    IF h.current_batches = <<>>
    THEN Replied(h, "fix_errors", args, "error", "run_analysis_first")
    ELSE IF InvalidBatchIdx(idx, h.current_batches)
    THEN Replied(h, "fix_errors", args, "error", "invalid_batch_index")
    ELSE
    LET whole    == h.current_batches[idx + 1]
        filtered == FilterBatchByIndices(whole, args.error_indices[1])
    IN
    IF args.error_indices # <<>> /\ ~Truthy(filtered)
    THEN Replied(h, "fix_errors", args, "error", "no_valid_indices")
    ELSE
    LET batch == IF args.error_indices # <<>> THEN filtered ELSE whole
        bs    == RunAnalysis(rc, n, m)
    IN
    IF HasFixes(r)
    THEN IF ApplyFixes(r.fixes)
         THEN LET h1 == [h EXCEPT
                            !.fixed_errors = @ + Len(r.fixes),
                            !.current_batches = bs,
                            !.current_batch_idx = NewBatchIdx(idx, bs),
                            !.reported = FlattenBatches(bs)]
                  a  == Replied(h1, "fix_errors", args, "success", "applied")
              IN  [a EXCEPT !.last.fixer_calls = 1, !.last.apply_calls = 1,
                            !.last.analyzer_calls = 1,
                            !.last.sent = <<batch>>]
         ELSE LET a == Replied(h, "fix_errors", args, "error",
                               "failed_to_apply")
              IN  [a EXCEPT !.last.fixer_calls = 1, !.last.apply_calls = 1,
                            !.last.sent = <<batch>>]
    ELSE LET a == Replied(h, "fix_errors", args, "warning", "no_fixes")
         IN  [a EXCEPT !.last.fixer_calls = 1, !.last.sent = <<batch>>]

\* claude_code_mcp.py 211-247
HandleListErrors(h, args) ==
    LET idx == BatchIdxOf(h, args) IN
    IF h.current_batches = <<>>
    THEN Replied(h, "list_errors", args, "error", "run_analysis_first")
    ELSE IF InvalidBatchIdx(idx, h.current_batches)
    THEN Replied(h, "list_errors", args, "error", "invalid_batch_index")
    ELSE Replied(h, "list_errors", args, "success", "listing")

\* claude_code_mcp.py 249-299; error_indices defaults to the empty list
HandleSelectErrors(h, args) ==
    LET idx           == BatchIdxOf(h, args)
        error_indices == IF args.error_indices = <<>> THEN {}
                         ELSE args.error_indices[1]
    IN
    IF h.current_batches = <<>>
    THEN Replied(h, "select_errors", args, "error", "run_analysis_first")
    ELSE IF InvalidBatchIdx(idx, h.current_batches)
    THEN Replied(h, "select_errors", args, "error", "invalid_batch_index")
    ELSE
    LET filtered_batch ==
            FilterBatchByIndices(h.current_batches[idx + 1],
                                 error_indices)
    IN
    IF ~Truthy(filtered_batch)
    THEN Replied(h, "select_errors", args, "error", "no_valid_indices")
    ELSE Replied([h EXCEPT !.current_batches[idx + 1] = filtered_batch],
                 "select_errors", args, "success", "selected")

Commands ==
    {"run_phpstan", "fix_errors", "list_errors", "select_errors", "other"}

\* claude_code_mcp.py 43-66
HandleCommand(h, command, args, r, rc, n, m) ==
    IF command = "run_phpstan" THEN HandleRunPhpstan(h, args, rc, n, m)
    ELSE IF command = "fix_errors" THEN HandleFixErrors(h, args, r, rc, n, m)
    ELSE IF command = "list_errors" THEN HandleListErrors(h, args)
    ELSE IF command = "select_errors" THEN HandleSelectErrors(h, args)
    ELSE Replied(h, command, args, "error", "unknown_command")

\* A handler with its batch size, before its first command.
HandlerInit ==
    /\ max_iterations = 0
    /\ max_errors_per_batch \in 1..MaxBatch
    /\ LoopIdle
    /\ PlanIdle
    /\ PatchIdle
    /\ ParseIdle
    /\ FixIdle
    /\ handler = NewHandler
    /\ PairIdle

\* The arguments a command looks at, the responses of the Fixer if the
\* command calls it and the outcomes of the analysis if it runs one: an exit
\* code and the number of error rows of the report (none with exit code 0).
ArgsFor(command) ==
    IF command \in {"run_phpstan", "other"} THEN {NoArgs}
    ELSE IF command = "list_errors"
    THEN {args \in CommandArgs : args.error_indices = <<>>}
    ELSE CommandArgs

ResponsesFor(h, command, args) ==
    IF /\ command = "fix_errors"
       /\ h.current_batches # <<>>
       /\ ~InvalidBatchIdx(BatchIdxOf(h, args), h.current_batches)
    THEN Responses
    ELSE {NoResponse}

AnalysisOutcomes == {<<0, 0>>} \cup {<<1, n>> : n \in 0..MaxErrors}

AnalysesFor(command, r) ==
    IF \/ command = "run_phpstan"
       \/ command = "fix_errors" /\ HasFixes(r) /\ ApplyFixes(r.fixes)
    THEN AnalysisOutcomes
    ELSE {<<0, 0>>}

\* handle_command on the handler h, for one command, with what the Analyzer
\* and the Fixer answer if they are called.
CommandOn(h, command) ==
    \E args \in ArgsFor(command) :
       \E r \in ResponsesFor(h, command, args) :
          \E a \in AnalysesFor(command, r) :
             handler' = HandleCommand(h, command, args, r, a[1], a[2],
                                      max_errors_per_batch)

Command(command) ==
    /\ handler.pc = "ready"
    /\ handler.commands < MaxCommands
    /\ CommandOn(handler, command)
    /\ UNCHANGED <<configVars, loopVars, histVars, planVars, patchVars,
                   parseVars, fixVars, pairVars>>

RunPhpstanCommand == Command("run_phpstan")

FixErrorsCommand == Command("fix_errors")

ListErrorsCommand == Command("list_errors")

SelectErrorsCommand == Command("select_errors")

OtherCommand == Command("other")

HandlerNext ==
    \/ RunPhpstanCommand
    \/ FixErrorsCommand
    \/ ListErrorsCommand
    \/ SelectErrorsCommand
    \/ OtherCommand

HandlerSpec == HandlerInit /\ [][HandlerNext]_vars

\* mcp_command.py 20-36: handle_mcp_command makes a handler for the command
\* it is given; the counters of the history go on.
HandleMcpCommand ==
    /\ handler.pc = "ready"
    /\ handler.commands < MaxCommands
    /\ \E command \in Commands : CommandOn(InitialState(handler), command)
    /\ UNCHANGED <<configVars, loopVars, histVars, planVars, patchVars,
                   parseVars, fixVars, pairVars>>

McpCommandNext == HandleMcpCommand

McpCommandSpec == HandlerInit /\ [][McpCommandNext]_vars

\* --------------------------------------- the two loops on one environment
\*
\* IncrementalProcessor.process and McpClient.process_phpstan_errors, each
\* as a function of the project and of a deterministic environment.  The
\* project files are in one of two states; a set of fixes of which one
\* applies takes them from one to the other.  The Analyzer's outcome is a
\* function of the state of the files, the Fixer's response a function of
\* the request: the batch and the file contents in it, which are the state
\* of the files when they are read, or nothing where reading raises.
\*
\* run_pair, while the two loops are followed, is the record of
\*   pc          "ready"
\*   env         the environment:
\*     unreadable  reading a file named in the batches raises
\*                 (UnicodeDecodeError, PermissionError)
\*     analysis    the exit code and the error rows, for each state
\*     reply       the response of the Fixer, for each request
\*   process     the run of process(): NotRun, or its result, the files it
\*               left and the requests it sent
\*   client      the same for process_phpstan_errors(), its result being
\*               "raised" when an exception left it
\* and the record of pc "none" alone while another part is followed.

DiskStates == {"d0", "d1"}

OtherDisk(d) == IF d = "d0" THEN "d1" ELSE "d0"

Omitted == "omitted"

\* An analysis ends clean, or with a report of no row, or with two rows, which
\* make two batches of one.
PairOutcomes == {<<0, 0>>, <<1, 0>>, <<1, 2>>}

PairBatchIdx == {0, 1}

\* The Fixer proposes nothing, a fix that is skipped, or a fix that applies.
PairResponses ==
    {[status |-> "success", fixes |-> f] :
        f \in {<<>>, <<"skipped">>, <<"applies">>}}

Environments ==
    UNION {[unreadable : {u},
            analysis   : [DiskStates -> PairOutcomes],
            reply      : [PairBatchIdx
                              \X (IF u THEN {Omitted} ELSE DiskStates)
                          -> PairResponses]] : u \in BOOLEAN}

NotRun == [result |-> "none"]

\* incremental_processor.py 174-181: the contents are read from the files at
\* the time of the call, start being their state when the analysis of the
\* iteration ran; a read that raises is printed and the file left out.
BuggyGetFileContents(env, disk, start) ==
    IF env.unreadable THEN Omitted ELSE start

GetFileContents(env, disk, start) ==
    IF env.unreadable THEN Omitted ELSE disk

\* McpClient.py 101-107: the same read without a handler; "raises" stands
\* for the exception.
PrepareContents(env, disk) ==
    IF env.unreadable THEN "raises" ELSE disk

\* McpClient.py 264-363 on the files: a fix that applies is written.
DiskAfter(disk, fixes) ==
    IF SuccessCount(fixes) > 0 THEN OtherDisk(disk) ELSE disk

\* incremental_processor.py 103-135: the batches from index idx on; st holds
\* the files, their state at the analysis, errors_fixed_this_iteration and
\* the requests sent.
RECURSIVE ProcessBatches(_, _, _, _)
ProcessBatches(env, bs, idx, st) ==
    IF idx >= Len(bs) THEN st
    ELSE
    LET file_contents == GetFileContents(env, st.disk, st.start)
        r    == env.reply[<<idx, file_contents>>]
        sent == [st EXCEPT !.log = Append(@, [batch_idx |-> idx,
                                              contents  |-> file_contents,
                                              disk      |-> st.disk,
                                              start     |-> st.start])]
    IN  IF HasFixes(r)
        THEN IF ApplyFixes(r.fixes)
             THEN ProcessBatches(env, bs, NextBatchIdx(idx),
                                 [sent EXCEPT
                                     !.disk = DiskAfter(@, r.fixes),
                                     !.fixed = @ + Len(r.fixes)])
             ELSE [sent EXCEPT !.outcome = "failed"]
        ELSE ProcessBatches(env, bs, NextBatchIdx(idx), sent)

\* incremental_processor.py 78-160, from the test of the while loop on
RECURSIVE ProcessLoop(_, _, _, _, _)
ProcessLoop(env, n, i, disk, log) ==
    IF ~LoopGuard(i, n)
    THEN [result |-> "False", disk |-> disk, log |-> log]
    ELSE
    LET a  == env.analysis[disk]
        bs == RunAnalysis(a[1], a[2], 1)
    IN  IF NoErrors(a[1])
        THEN [result |-> "True", disk |-> disk, log |-> log]
        ELSE
        LET st == ProcessBatches(env, bs, 0,
                                 [disk |-> disk, start |-> disk, fixed |-> 0,
                                  log |-> log, outcome |-> "done"])
        IN  IF st.outcome = "failed"
            THEN [result |-> "False", disk |-> st.disk, log |-> st.log]
            ELSE IF Stuck(st.fixed)
            THEN [result |-> "False", disk |-> st.disk, log |-> st.log]
            ELSE ProcessLoop(env, n, i + 1, st.disk, st.log)

\* McpClient.py 403-419
RECURSIVE ClientBatches(_, _, _, _)
ClientBatches(env, bs, idx, st) ==
    IF idx >= Len(bs) THEN st
    ELSE
    LET file_contents == PrepareContents(env, st.disk) IN
    IF file_contents = "raises" THEN [st EXCEPT !.outcome = "raised"]
    ELSE
    LET r    == env.reply[<<idx, file_contents>>]
        sent == [st EXCEPT !.log = Append(@, [batch_idx |-> idx,
                                              contents  |-> file_contents,
                                              disk      |-> st.disk,
                                              start     |-> st.start])]
    IN  IF HasFixes(r)
        THEN IF ApplyFixes(r.fixes)
             THEN ClientBatches(env, bs, NextBatchIdx(idx),
                                [sent EXCEPT !.disk = DiskAfter(@, r.fixes)])
             ELSE [sent EXCEPT !.outcome = "failed"]
        ELSE ClientBatches(env, bs, NextBatchIdx(idx), sent)

\* McpClient.py 387-426, from the test of the while loop on
RECURSIVE ClientLoop(_, _, _, _, _)
ClientLoop(env, n, i, disk, log) ==
    IF ~LoopGuard(i, n)
    THEN [result |-> "False", disk |-> disk, log |-> log]
    ELSE
    LET a  == env.analysis[disk]
        bs == RunAnalysis(a[1], a[2], 1)
    IN  IF a[1] = 0
        THEN [result |-> "True", disk |-> disk, log |-> log]
        ELSE
        LET st == ClientBatches(env, bs, 0,
                                [disk |-> disk, start |-> disk,
                                 log |-> log, outcome |-> "done"])
        IN  IF st.outcome = "raised"
            THEN [result |-> "raised", disk |-> st.disk, log |-> st.log]
            ELSE IF st.outcome = "failed"
            THEN [result |-> "False", disk |-> st.disk, log |-> st.log]
            ELSE ClientLoop(env, n, i + 1, st.disk, st.log)

\* Any environment, the files in their first state, neither loop run.
PairInit ==
    /\ max_iterations \in 0..MaxIter
    /\ max_errors_per_batch = 1
    /\ LoopIdle
    /\ PlanIdle
    /\ PatchIdle
    /\ ParseIdle
    /\ FixIdle
    /\ HandlerIdle
    /\ \E env \in Environments :
         run_pair = [pc |-> "ready", env |-> env, process |-> NotRun,
                     client |-> NotRun]

\* IncrementalProcessor.process on the project
RunProcess ==
    /\ run_pair.pc = "ready"
    /\ run_pair.process = NotRun
    /\ run_pair' = [run_pair EXCEPT
                       !.process = ProcessLoop(run_pair.env, max_iterations,
                                               0, "d0", <<>>)]
    /\ UNCHANGED <<configVars, loopVars, histVars, planVars, patchVars,
                   parseVars, fixVars, handlerVars>>

\* McpClient.process_phpstan_errors on the same project
RunClient ==
    /\ run_pair.pc = "ready"
    /\ run_pair.client = NotRun
    /\ run_pair' = [run_pair EXCEPT
                       !.client = ClientLoop(run_pair.env, max_iterations,
                                             0, "d0", <<>>)]
    /\ UNCHANGED <<configVars, loopVars, histVars, planVars, patchVars,
                   parseVars, fixVars, handlerVars>>

PairNext ==
    \/ RunProcess
    \/ RunClient

PairSpec == PairInit /\ [][PairNext]_vars

\* ================================================================== claims

\* The Analyzer has been run and its last exit code was 0.
AnalyzerClean == analyzer_calls >= 1 /\ return_code = 0

\* The Analyzer has been run and its last exit code was not 0.
AnalyzerDirty == analyzer_calls >= 1 /\ return_code # 0

\* The batch indexes 0 .. n-1 in increasing order.
IndexOrder(n) == [i \in 1..n |-> i - 1]

\* The reply being handled carries fixes and apply_fixes skips every one.
PatcherFails ==
    pc = "apply" /\ HasFixes(response) /\ SuccessCount(response.fixes) = 0

\* ---- C1
\* C1: process() terminates whatever the Analyzer and the Fixer answer (under
\* FairSpec every behaviour reaches the returned state), and the Analyzer is
\* run at most max_iterations times.
C1_Terminates == <>Returned /\ [](analyzer_calls <= max_iterations)

\* A run that used its whole budget of Analyzer runs and has returned.
C1_Witness ==
    Returned /\ max_iterations >= 2 /\ analyzer_calls = max_iterations

\* ---- C2
\* C2: a batch whose fixes were all skipped (apply_fixes reports failure) does
\* not end the run: the step that handles it goes on to the next batch of the
\* iteration.
C2_PatcherFailureNotFatal ==
    [][PatcherFails => (pc' = "for" /\ batch_idx' = batch_idx + 1)]_vars

\* ---- C3
\* C3: an iteration that applies zero fixes ends the run with failure at the
\* end of that iteration, every batch of it having been dispatched, and the
\* loop never starts another iteration after it; with a Fixer whose every
\* reply is an empty fix list the run ends after one iteration and one
\* Analyzer run.
C3_ZeroFixIterationStops ==
    /\ (pc \in {"while", "analyse"} /\ iteration > 0
            => applied_this_iteration > 0)
    /\ (Returned /\ AnalyzerDirty /\ applied_this_iteration = 0
            => /\ result = "False"
               /\ dispatched = IndexOrder(Len(batches))
               /\ handled = Len(batches))
    /\ (Returned /\ AnalyzerDirty /\ fixer_all_empty
            => /\ result = "False"
               /\ analyzer_calls = 1
               /\ stats.iterations = 1)

\* ---- C4
\* C4 as stated: a run (max_iterations >= 1) in which the Analyzer found
\* errors until k fixing iterations were completed (k = iteration,
\* 0 <= k <= max_iterations) and that then ended by the Analyzer's clean exit
\* or by the loop's end, ends with success and reports stats.iterations = k.
C4_Original ==
    Returned /\ max_iterations >= 1 /\ exit_line \in {94, 160}
        => result = "True" /\ stats.iterations = iteration

\* C4 amended: iteration counts the completed iterations, each of which
\* applied at least one fix; a clean exit of the Analyzer after k of them
\* happens only for k < max_iterations, is the (k+1)-th Analyzer run, and
\* ends the run with success and stats.iterations = k + 1; after
\* k = max_iterations of them the Analyzer is not run again and the run ends
\* with failure.
C4_Amended ==
    /\ (pc \in {"while", "analyse"} /\ iteration > 0
            => applied_this_iteration > 0)
    /\ (AnalyzerClean
            => /\ iteration < max_iterations
               /\ analyzer_calls = iteration + 1
               /\ pc \in {"check_rc", "returned"})
    /\ (Returned /\ AnalyzerClean
            => result = "True" /\ stats.iterations = iteration + 1)
    /\ (Returned /\ iteration = max_iterations
            => result = "False" /\ analyzer_calls = max_iterations)

\* A run ended by a clean Analyzer exit after one fixing iteration.
C4_Witness ==
    Returned /\ AnalyzerClean /\ iteration = 1 /\ stats.iterations = 2

\* ---- C5
\* C5: with max_iterations = N >= 1, an Analyzer that never exits clean and
\* every iteration applying at least one fix, the run ends with failure after
\* exactly N Analyzer runs and reports stats.iterations = N.
C5_ExhaustedAfterN ==
    Returned /\ max_iterations >= 1 /\ AnalyzerDirty
             /\ applied_this_iteration > 0
        => /\ result = "False"
           /\ analyzer_calls = max_iterations
           /\ stats.iterations = max_iterations

\* ---- C6
\* C6: process() returns True only after an Analyzer run with exit code 0;
\* and once the Analyzer has exited with 0 the output is not parsed, no batch
\* exists, nothing is dispatched, and the one step left is the return of
\* True, which calls neither the parser nor the Fixer and writes no file.
C6_CleanExit ==
    /\ [](result = "True" => AnalyzerClean)
    /\ [](AnalyzerClean
            => /\ pc \in {"check_rc", "returned"}
               /\ batches = <<>>
               /\ parse_calls = analyzer_calls - 1
               /\ dispatched = <<>>
               /\ response = NoResponse
               /\ applied_this_iteration = 0
               /\ (Returned => result = "True"))
    /\ [][AnalyzerClean
            => /\ Returned' /\ result' = "True"
               /\ UNCHANGED <<analyzer_calls, parse_calls, fixer_calls,
                              applied_this_iteration, batches>>]_vars

\* A run that fixed something in its first iteration and then found the
\* Analyzer clean.
C6_Witness ==
    Returned /\ result = "True" /\ fixer_calls >= 1 /\ parse_calls = 1

\* ---- C7
\* C7 as stated: a nonzero exit with zero parsed records (zero batches) ends
\* the run with the success result.
C7_Original ==
    Returned /\ AnalyzerDirty /\ batches = <<>> => result = "True"

\* C7 amended: a nonzero exit with zero parsed records ends the run with the
\* failure result (no fix was applied in that iteration: STUCK), without any
\* Fixer call in that iteration and without another Analyzer run.
C7_Amended ==
    /\ (AnalyzerDirty /\ batches = <<>>
            => /\ pc \in {"check_rc", "for", "returned"}
               /\ dispatched = <<>>
               /\ response = NoResponse)
    /\ (Returned /\ AnalyzerDirty /\ batches = <<>>
            => /\ result = "False"
               /\ exit_line = 145
               /\ stats.iterations = iteration + 1
               /\ analyzer_calls = iteration + 1)

\* Such a run, in its second iteration.
C7_Witness ==
    Returned /\ AnalyzerDirty /\ batches = <<>> /\ iteration = 1

\* ---- C8
\* C8: an "error" reply of the Fixer for one batch writes no file for that
\* batch and leads on to the next batch, and every later batch of the
\* iteration is dispatched, in index order: a run never returns with an
\* "error" reply in its last iteration and a batch of it undispatched.
C8_ErrorReplySkipsOnlyItsBatch ==
    /\ [][pc = "apply" /\ response.status = "error"
            => /\ applied_this_iteration' = applied_this_iteration
               /\ pc' = "for" /\ batch_idx' = batch_idx + 1]_vars
    /\ [](Returned /\ error_reply_seen
            => dispatched = IndexOrder(Len(batches)))

\* ---- C9
\* C9: the batches of an iteration are sent in increasing index order, a
\* batch being sent only when the reply to every earlier one has been handled
\* (its patches attempted); and the Analyzer is run again only when every
\* batch of the iteration before has been sent and handled.
C9_Ordering ==
    /\ [](dispatched = IndexOrder(Len(dispatched)))
    /\ [](handled <= Len(dispatched) /\ Len(dispatched) <= handled + 1)
    /\ [][dispatched' # dispatched /\ dispatched' # <<>>
            => /\ handled = Len(dispatched)
               /\ response = NoResponse
               /\ dispatched' = Append(dispatched, Len(dispatched))]_vars
    /\ [][analyzer_calls' # analyzer_calls
            => /\ Len(dispatched) = Len(batches)
               /\ handled = Len(batches)
               /\ response = NoResponse]_vars

\* The Analyzer about to run a second time after an iteration of three batches.
C9_Witness ==
    pc = "analyse" /\ iteration = 1 /\ Len(batches) = 3 /\ handled = 3

\* ---- C10
\* The error list as the dicts the batches hold.
PlanDicts == [i \in DOMAIN plan_errors |-> ToDict(plan_errors[i])]

\* The entries of all the batches, batch by batch.
PlanFlat == FlattenBatches(plan_batches)

\* The b-th window of max_errors_per_batch consecutive records (b from 1).
PlanWindow(b) ==
    SubSeq(PlanDicts, (b - 1) * max_errors_per_batch + 1,
           Min(b * max_errors_per_batch, Len(PlanDicts)))

Count(s, x) == Cardinality({i \in DOMAIN s : s[i] = x})

SameBag(s, t) ==
    /\ Len(s) = Len(t)
    /\ \A i \in DOMAIN s : Count(s, s[i]) = Count(t, s[i])

OfFile(s, f) == SelectSeq(s, LAMBDA x : x.file = f)

\* The records of each file are adjacent in s.
FileContiguous(s) ==
    \A i, j, k \in DOMAIN s :
        i < j /\ j < k /\ s[i].file = s[k].file => s[j].file = s[i].file

\* C10 as stated: the entries of the batches, concatenated, are the original
\* error sequence.
C10_Original == PlanDone => PlanFlat = PlanDicts

\* C10 amended: the concatenation has as many entries as the original; the
\* entries of batch b are exactly those of the b-th window (no loss, no
\* duplication, nothing moved across a batch boundary), the records of one
\* file keeping their order; and it is the original sequence itself whenever
\* the records of each file are adjacent within every window.
C10_Amended ==
    /\ \A b \in DOMAIN plan_batches :
         LET got == FlattenDict(plan_batches[b].errors_by_file)
         IN  /\ SameBag(got, PlanWindow(b))
             /\ \A f \in Files : OfFile(got, f) = OfFile(PlanWindow(b), f)
    /\ (PlanDone
            => /\ Len(PlanFlat) = Len(PlanDicts)
               /\ ((\A b \in DOMAIN plan_batches : FileContiguous(PlanWindow(b)))
                      => PlanFlat = PlanDicts))

\* Two batches, the first with interleaved files, so that the concatenation
\* is not the original sequence.
C10_Witness ==
    /\ PlanDone
    /\ Len(plan_batches) = 2
    /\ ~FileContiguous(PlanWindow(1))
    /\ PlanFlat # PlanDicts

\* ---- C11
\* run_phpstan_analysis has left its loop over range(total_batches).
PlanReturned == plan_pc = "loop" /\ ~(Len(plan_batches) < PlanTotal)

\* The entries of batch b (b from 1), as the batch holds them.
BatchEntries(b) == FlattenDict(plan_batches[b].errors_by_file)

\* Every record value an error list can hold, as a batch entry.
AllDicts == {ToDict(e) : e \in ErrorRecords}

\* C11: for n parsed errors and batch size m > 0, the records of batch i are
\* exactly the records at positions i*m .. min((i+1)*m, n)-1 (each as many
\* times as it occurs there), and when all batches are produced every
\* position of the parsed sequence lies in the window of exactly one batch, so
\* every record appears in exactly one batch.
C11_Partition ==
    /\ \A b \in DOMAIN plan_batches : \A x \in AllDicts :
         Count(BatchEntries(b), x) = Count(PlanWindow(b), x)
    /\ (PlanReturned
            => /\ \A i \in DOMAIN plan_errors :
                    Cardinality({b \in DOMAIN plan_batches :
                                   /\ (b - 1) * max_errors_per_batch < i
                                   /\ i <= b * max_errors_per_batch}) = 1
               /\ \A x \in AllDicts : Count(PlanFlat, x) = Count(PlanDicts, x))

\* Three errors cut into a full batch and a partial one.
C11_Witness ==
    /\ PlanReturned
    /\ max_errors_per_batch = 2
    /\ Len(plan_errors) = 3
    /\ Len(plan_batches) = 2

\* ---- C12
\* C12: for batch size m > 0 every batch holds at least 1 and at most m
\* errors, every batch but the last holds exactly m, batch_size is the number
\* of entries in errors_by_file, and with m = 1 a batch holds one file with one
\* error.
C12_BatchSizes ==
    \A b \in DOMAIN plan_batches :
        LET k == Len(BatchEntries(b))
        IN  /\ 1 <= k /\ k <= max_errors_per_batch
            /\ (b * max_errors_per_batch < Len(plan_errors)
                    => k = max_errors_per_batch)
            /\ plan_batches[b].batch.batch_size = k
            /\ (max_errors_per_batch = 1
                    => /\ Len(plan_batches[b].errors_by_file) = 1
                       /\ Len(plan_batches[b].errors_by_file[1].errors) = 1)

\* File A with one error, file B with one error, batch size 1: two batches.
C12_Witness ==
    /\ PlanReturned
    /\ max_errors_per_batch = 1
    /\ Len(plan_errors) = 2
    /\ plan_errors[1].file # plan_errors[2].file
    /\ Len(plan_batches) = 2

\* ---- C13
\* The least k with k * m >= n.
Ceil(n, m) ==
    CHOOSE k \in 0..n : /\ k * m >= n
                        /\ \A j \in 0..n : j * m >= n => k <= j

\* C13: get_total_batches(n) is ceil(n / max_errors_per_batch) for a positive
\* batch size (0 for n = 0, 3 for n = 7 and size 3), and
\* run_phpstan_analysis returns exactly that many batches.
C13_TotalBatches ==
    /\ PlanTotal = Ceil(Len(plan_errors), max_errors_per_batch)
    /\ GetTotalBatches(0, max_errors_per_batch) = 0
    /\ GetTotalBatches(7, 3) = 3
    /\ Len(plan_batches) <= Ceil(Len(plan_errors), max_errors_per_batch)
    /\ (PlanReturned
            => Len(plan_batches) = Ceil(Len(plan_errors), max_errors_per_batch))

\* Four errors and batch size 3: two batches.
C13_Witness ==
    /\ PlanReturned
    /\ max_errors_per_batch = 3
    /\ Len(plan_errors) = 4
    /\ Len(plan_batches) = 2

\* ---- C14
\* C14: a batch size max_errors_per_batch <= 0 is rejected when the planner is
\* constructed: no constructed planner, and so no batch computation, has a
\* non-positive batch size.
C14_NonPositiveRejected == plan_pc # "new" => max_errors_per_batch > 0

\* ---- C15
\* C15: batch i (0-based) reports has_more exactly when (i+1)*m < n, that is
\* when a batch i+1 holding at least one error exists: of the batches
\* returned, every one but the last has has_more true and the last has it
\* false.
C15_HasMore ==
    \A b \in DOMAIN plan_batches :
        /\ plan_batches[b].batch.has_more
               = (b * max_errors_per_batch < Len(plan_errors))
        /\ plan_batches[b].batch.has_more = (PlanWindow(b + 1) # <<>>)
        /\ (PlanReturned
               => plan_batches[b].batch.has_more = (b < Len(plan_batches)))

\* Four errors in two full batches: the last window ends at the last error.
C15_Witness ==
    /\ PlanReturned
    /\ max_errors_per_batch = 2
    /\ Len(plan_errors) = 4
    /\ Len(plan_batches) = 2
    /\ ~plan_batches[2].batch.has_more

\* ---- C16
\* C16: every batch returned by run_phpstan_analysis carries every key its
\* consumers read from batch["batch"] (index and total), so that fix_batch
\* never fails on a missing key.
C16_MetadataKeys ==
    /\ \A b \in DOMAIN plan_batches :
         FixBatchKeys \subseteq DOMAIN plan_batches[b].batch
    /\ plan_pc # "KeyError"

\* ---- C17
\* s with its first occurrence of old (not empty) replaced by new.
RECURSIVE ReplaceFirst(_, _, _)
ReplaceFirst(s, old, new) ==
    IF Len(s) < Len(old) THEN s
    ELSE IF SubSeq(s, 1, Len(old)) = old
         THEN new \o SubSeq(s, Len(old) + 1, Len(s))
         ELSE <<s[1]>> \o ReplaceFirst(Tail(s), old, new)

\* s without its whitespace characters.
RemoveWs(s) == SelectSeq(s, LAMBDA c : c \notin Whitespace)

\* The proposal was processed and original_code occurred verbatim in the file.
ExactCase == patch_count >= 1 /\ Contains(patch_original, patch_before)

\* The proposal was processed, original_code did not occur verbatim, and its
\* normalized form occurred in the normalized content.
FuzzyCase ==
    /\ patch_count >= 1
    /\ ~Contains(patch_original, patch_before)
    /\ Contains(Normalize(patch_original), Normalize(patch_before))

\* C17: when original_code occurs verbatim in the file, apply_fixes replaces
\* its first occurrence by fixed_code and leaves every later occurrence as it
\* was.
C17_FirstOccurrenceOnly ==
    ExactCase
        => patch_content = ReplaceFirst(patch_before, patch_original, patch_fixed)

\* ---- C18
\* C18 as stated: processing the proposal (here one whose fragment is not
\* mere whitespace) a second time, on the content the first time left, does
\* not change the content.
C18_Original ==
    patch_count = 2 /\ RemoveWs(patch_original) # <<>>
        => patch_content = patch_before

\* C18 amended: the second time is a no-op (the fix is skipped and nothing is
\* written) whenever the content the first time left holds the original
\* fragment neither verbatim nor in normalized form.
C18_Amended ==
    (/\ patch_count = 2
     /\ ~Contains(patch_original, patch_before)
     /\ ~Contains(Normalize(patch_original), Normalize(patch_before)))
        => (patch_content = patch_before /\ patch_outcome = "skipped")

\* The first time put "b" into the file, the second time changed nothing.
C18_Witness ==
    /\ patch_count = 2
    /\ patch_fixed = <<"b">>
    /\ Contains(<<"b">>, patch_before)
    /\ ~Contains(patch_original, patch_before)
    /\ patch_outcome = "skipped"
    /\ patch_content = patch_before

\* ---- C19
\* '\n'.join(lines)
RECURSIVE JoinLines(_)
JoinLines(lines) ==
    IF lines = <<>> THEN <<>>
    ELSE IF Len(lines) = 1 THEN lines[1]
         ELSE lines[1] \o <<"\n">> \o JoinLines(Tail(lines))

\* The physical lines of the content the proposal was processed on.
LinesBefore == SplitLines(patch_before, <<>>)

\* C19: in the fuzzy case (of a fragment that is not mere whitespace) the fix
\* is applied and changes one physical line,
\* the first whose normalized form holds the normalized fragment: that line
\* becomes fixed_code and every other line stays as it was.
C19_FuzzyOneLine ==
    FuzzyCase /\ RemoveWs(patch_original) # <<>>
        => /\ patch_outcome = "applied"
           /\ \E i \in DOMAIN LinesBefore :
                /\ Contains(Normalize(patch_original), Normalize(LinesBefore[i]))
                /\ \A j \in 1..(i - 1) :
                      ~Contains(Normalize(patch_original),
                                Normalize(LinesBefore[j]))
                /\ patch_content =
                      JoinLines([LinesBefore EXCEPT ![i] = patch_fixed])

\* ---- C20
\* C20: an original fragment that is not in the file verbatim and differs
\* from a physical line of it only in whitespace (whitespace the line does not
\* have included) is located: the fix is applied and fixed_code stands in the
\* file.
C20_WhitespaceOnlyDifference ==
    (/\ patch_count = 1
     /\ ~Contains(patch_original, patch_before)
     /\ RemoveWs(patch_original) # <<>>
     /\ \E i \in DOMAIN LinesBefore :
          RemoveWs(LinesBefore[i]) = RemoveWs(patch_original))
        => (patch_outcome = "applied" /\ Contains(patch_fixed, patch_content))

\* ---- C21
\* file_path without its 'src/' prefix, when it has one.
StripSrcPrefix(file_path) ==
    IF Len(file_path) >= Len(SrcDir)
       /\ SubSeq(file_path, 1, Len(SrcDir)) = SrcDir
    THEN SubSeq(file_path, Len(SrcDir) + 1, Len(file_path))
    ELSE file_path

\* The four candidates in their order: root/file, root/src/file,
\* root/(file without its src/ prefix), root/src/(file without its src/
\* prefix).
StatedCandidates(file_path) ==
    <<file_path,
      SrcDir \o file_path,
      StripSrcPrefix(file_path),
      SrcDir \o StripSrcPrefix(file_path)>>

\* C21: a fix is resolved to the first of the four candidates that exists,
\* which is the only file read and written, every other file staying as it
\* was; when none of them exists the fix is skipped and no file changes.
C21_Resolution ==
    (/\ apply_call.pc = "returned"
     /\ Len(apply_call.fixes) = 1
     /\ HasAllFields(apply_call.fixes[1]))
        => LET p == FirstExisting(apply_call.disk_before,
                                  StatedCandidates(apply_call.fixes[1].file))
           IN  /\ apply_call.log[1].path = p
               /\ p = NoPath => apply_call.log[1].outcome = "unresolved"
               /\ \A q \in DiskPaths \ {p} :
                      apply_call.disk[q] = apply_call.disk_before[q]

\* ---- C22
\* C22: apply_fixes never raises, and when it returns every fix of the list
\* was attempted, in the order of the list, whatever became of the fixes
\* before it (path unresolved, fragment not found, file-system error).
C22_NeverRaises ==
    /\ apply_call.pc # "raised"
    /\ apply_call.pc \in {"loop", "returned"}
           => /\ Len(apply_call.log) = apply_call.fix_idx
              /\ \A i \in 1..Len(apply_call.log) : apply_call.log[i].idx = i
    /\ apply_call.pc = "returned"
           => Len(apply_call.log) = Len(apply_call.fixes)

\* A file-system error on the first fix, the second fix applied.
C22_Witness ==
    /\ apply_call.pc = "returned"
    /\ Len(apply_call.log) = 2
    /\ apply_call.log[1].outcome \in {"read_error", "write_error"}
    /\ apply_call.log[2].outcome = "applied"

\* ---- C23
AppliedCount ==
    Cardinality({i \in 1..Len(apply_call.log) :
                    apply_call.log[i].outcome = "applied"})

Letters(str) == {str[i] : i \in 1..Len(str)}

\* Fix i was applied to the file before fix j, their fragments do not
\* overlap (no letter of j's fragment is in i's fragment or replacement) and
\* no other write to the file came between them.
AppliedInTurn(i, j) ==
    /\ i < j
    /\ apply_call.log[i].outcome = "applied"
    /\ apply_call.log[j].outcome = "applied"
    /\ apply_call.log[i].path = apply_call.log[j].path
    /\ Letters(apply_call.fixes[j].original_code)
           \cap (Letters(apply_call.fixes[i].original_code)
                 \cup Letters(apply_call.fixes[i].fixed_code)) = {}
    /\ \A k \in (i + 1)..(j - 1) :
           apply_call.log[k].outcome \notin {"applied", "write_error"}

C25_FixedCountIsApplied ==
    Returned /\ analyzer_calls = 1 /\ exit_line # 126
        => stats.total_errors_fixed = applied_this_iteration

\* ---- C26
\* by_type[t], 0 for a type not counted yet.
TypeTally(by_type, t) == IF t \in DOMAIN by_type THEN by_type[t] ELSE 0

\* The number of records of type t among the parsed records that the batch
\* being handled was cut from.
TypeCountOfBatch(t) ==
    LET parsed == ReportOf(batches[1].batch.total_errors)
        first  == batch_idx * max_errors_per_batch + 1
        last   == Min(first + max_errors_per_batch - 1, Len(parsed))
    IN  Cardinality({i \in first..last : parsed[i].error_type = t})

\* C26: errors_by_type starts empty and changes only when a batch's fixes
\* were applied (apply_fixes reported success), then growing for every type t
\* by the number of records of type t in that batch, however many fixes the
\* reply held; a batch with no fixes, an "error" reply or a failed patch
\* leaves it as it was.
C26_ErrorsByType ==
    /\ [](analyzer_calls = 0 => stats.errors_by_type = <<>>)
    /\ [][IF pc = "apply" /\ HasFixes(response) /\ ApplyFixes(response.fixes)
          THEN \A t \in ErrorTypes :
                   TypeTally(stats'.errors_by_type, t)
                       = TypeTally(stats.errors_by_type, t) + TypeCountOfBatch(t)
          ELSE stats'.errors_by_type = stats.errors_by_type]_vars

\* A run in which two batches with a record of type undefined_symbol had their
\* fixes applied.
C26_Witness ==
    /\ Returned
    /\ "undefined_symbol" \in DOMAIN stats.errors_by_type
    /\ stats.errors_by_type["undefined_symbol"] = 2
    /\ stats.total_batches_processed >= 2

\* ---- C27
\* C27: at every return of process(), stats.total_errors_fixed is the sum of
\* the fix tallies of all iterations executed (the completed ones and, for a
\* return from inside an iteration, the tally of that iteration so far), and
\* stats.iterations is at least the number of completed iterations.
C27_StatsAtReturn ==
    Returned
        => /\ stats.total_errors_fixed
                 = total_errors_fixed
                   + (IF exit_line = 126 THEN errors_fixed_this_iteration ELSE 0)
           /\ stats.iterations >= iteration

\* ---- C28
Keywords ==
    <<<<"undefined">>, <<"type">>, <<"missing">>, <<"not", ".", "found">>,
      <<"arguments">>>>

KeywordTypes ==
    <<"undefined_symbol", "type_error", "missing_type", "not_found",
      "argument_error">>

\* The type of the earliest keyword, in the order above, that the lower-cased
\* code contains; other when it contains none.
TypeByFirstKeyword(code) ==
    LET present == {i \in DOMAIN Keywords : Contains(Keywords[i], Lower(code))}
    IN  IF present = {} THEN "other"
        ELSE KeywordTypes[CHOOSE i \in present : \A j \in present : i <= j]

WellFormedChunk(ch) ==
    /\ Len(ch) >= 2
    /\ ch[1].kind = "row"
    /\ ch[2].kind = "code"

\* A section in which no row is well-formed.
NoRowWellFormed(sec) ==
    \A k \in 1..Len(sec.body) : ~WellFormedChunk(sec.body[k])

\* A well-formed section: at least one row, every row well-formed, and the
\* closing rule.
WellFormedSection(sec) ==
    /\ sec.body # <<>>
    /\ \A k \in 1..Len(sec.body) : WellFormedChunk(sec.body[k])
    /\ sec.closing # "none"

\* The records a well-formed section stands for, row by row.
RecordsOf(sec) ==
    [k \in 1..Len(sec.body) |->
        [message    |-> sec.body[k][1].text,
         file       |-> sec.file,
         line       |-> sec.body[k][1].num,
         error_type |-> TypeByFirstKeyword(sec.body[k][2].code),
         error_code |-> sec.body[k][2].code,
         suggestion |-> IF Len(sec.body[k]) = 3 THEN "hint" ELSE None]]

\* C29: for a report in which every section either has no well-formed row or
\* is well-formed, the parser returns the records of the well-formed sections,
\* in report order, and nothing for the others.
C29_MalformedSectionSkipped ==
    (/\ parse_call.pc = "parsed"
     /\ \A k \in 1..Len(parse_call.sections) :
            NoRowWellFormed(parse_call.sections[k])
                \/ WellFormedSection(parse_call.sections[k]))
        => (parse_call.errors
               = Concat([k \in 1..Len(parse_call.sections) |->
                            IF WellFormedSection(parse_call.sections[k])
                            THEN RecordsOf(parse_call.sections[k])
                            ELSE <<>>]))

\* ---- C30
\* C30: process_phpstan_errors returns only when an Analyzer run exited 0
\* (result True) or when max_iterations iterations have been run (result
\* False), and it runs the Analyzer at most max_iterations times.
C30_StopsOnlyCleanOrExhausted ==
    /\ analyzer_calls <= max_iterations
    /\ Returned
           => \/ result = "True" /\ return_code = 0
              \/ result = "False" /\ iteration = max_iterations

\* ---- C36
\* The outcomes of a fix that apply_fixes passes over without trying to write.
SkipOutcomes == {"missing_field", "unresolved", "not_found"}

\* C36: a fix that apply_fixes skips (a field missing or empty, no path
\* candidate existing, the fragment found neither verbatim nor after
\* normalisation) leaves every file as it was and is not counted as applied.
C36_SkippedLeavesFiles ==
    [][(/\ apply_call.pc = "loop"
        /\ apply_call'.pc = "loop"
        /\ Len(apply_call'.log) = Len(apply_call.log) + 1
        /\ apply_call'.log[Len(apply_call'.log)].outcome \in SkipOutcomes)
            => (/\ apply_call'.disk = apply_call.disk
                /\ apply_call'.success_count = apply_call.success_count)]_vars

C36_Witness ==
    /\ apply_call.pc = "returned"
    /\ \E i, j \in 1..Len(apply_call.log) :
          /\ apply_call.log[i].outcome = "not_found"
          /\ apply_call.log[j].outcome \in {"missing_field", "unresolved"}
    /\ apply_call.disk = apply_call.disk_before
    /\ apply_call.success_count = 0

\* ---- C34
\* C34: a fix that apply_fixes counts as applied has changed the content of
\* its file; the content written is never the content read, a fragment found
\* only by the normalized match across a line break included.
C34_AppliedChangesFile ==
    (patch_count >= 1 /\ patch_outcome = "applied")
        => patch_content # patch_before

\* ---- C35
\* How many directories below the project root a relative path ends, walked
\* part by part from depth d; -1 once the walk has left the project root.
RECURSIVE DepthAfter(_, _)
DepthAfter(path, d) ==
    IF d < 0 THEN -1
    ELSE IF path = <<>> THEN d
    ELSE IF Head(path) = "/" THEN DepthAfter(Tail(path), d)
    ELSE IF Head(path) = ".." THEN DepthAfter(Tail(path), d - 1)
    ELSE IF Tail(path) = <<>> THEN d
    ELSE DepthAfter(Tail(path), d + 1)

\* The file the path names lies under the project root.  No absolute path of
\* the model starts with the project root.
UnderProject(path) == ~IsAbs(path) /\ DepthAfter(path, 0) >= 0

\* The paths apply_fixes has opened for writing so far.
WrittenPaths ==
    {apply_call.log[i].path :
        i \in {j \in 1..Len(apply_call.log) :
                  apply_call.log[j].outcome \in {"applied", "write_error"}}}

\* C35: apply_fixes writes only to files under project_path, whatever file
\* path a fix carries, absolute paths and paths with parent-directory
\* segments included.
C35_WritesUnderProject ==
    /\ \A q \in WrittenPaths : UnderProject(q)
    /\ \A q \in DOMAIN apply_call.disk :
          apply_call.disk[q] # apply_call.disk_before[q] => UnderProject(q)

\* ---- C31
\* The attributes of a handler.
StateOf(h) ==
    <<h.current_batches, h.current_batch_idx, h.total_errors, h.fixed_errors>>

\* The step is the handling of one command.
CommandStep == handler'.commands = handler.commands + 1

\* C31: list_errors, fix_errors and select_errors, given while
\* current_batches is empty or with a batch_index outside
\* 0..len(current_batches)-1, answer with status "error", call neither the
\* Analyzer nor the Fixer nor apply_fixes, and leave the attributes of the
\* handler as they were.
C31_RejectedCommandChangesNothing ==
    [][(/\ CommandStep
        /\ handler'.last.command
               \in {"list_errors", "fix_errors", "select_errors"}
        /\ \/ handler.current_batches = <<>>
           \/ /\ handler'.last.args.batch_index # <<>>
              /\ handler'.last.args.batch_index[1]
                     \notin 0..(Len(handler.current_batches) - 1))
            => (/\ handler'.last.status = "error"
                /\ handler'.last.analyzer_calls = 0
                /\ handler'.last.fixer_calls = 0
                /\ handler'.last.apply_calls = 0
                /\ StateOf(handler') = StateOf(handler))]_vars

C31_Witness ==
    /\ handler.pc = "ready"
    /\ handler.current_batches # <<>>
    /\ handler.last.command = "fix_errors"
    /\ handler.last.args.batch_index = <<MaxErrors>>
    /\ handler.last.message = "invalid_batch_index"

\* ---- C32
\* The batch a command addresses, and whether the indices name none of its
\* errors.
AddressedBatch(h, args) == h.current_batches[BatchIdxOf(h, args) + 1]

Addresses(h, args) ==
    /\ h.current_batches # <<>>
    /\ BatchIdxOf(h, args) \in 0..(Len(h.current_batches) - 1)

NoValidIndex(batch, indices) ==
    \A i \in 1..Len(GetErrorsFromBatch(batch)) :
        GetErrorsFromBatch(batch)[i].index \notin indices

\* C32: fix_errors (given error_indices) and select_errors, when the indices
\* name no error of the addressed batch, answer with status "error" and the
\* message of no valid index, do not call the Fixer, and leave
\* current_batches as it was.
C32_NoValidIndexIsAnError ==
    [][(/\ CommandStep
        /\ Addresses(handler, handler'.last.args)
        /\ \/ /\ handler'.last.command = "fix_errors"
              /\ handler'.last.args.error_indices # <<>>
              /\ NoValidIndex(AddressedBatch(handler, handler'.last.args),
                              handler'.last.args.error_indices[1])
           \/ /\ handler'.last.command = "select_errors"
              /\ \/ handler'.last.args.error_indices = <<>>
                 \/ /\ handler'.last.args.error_indices # <<>>
                    /\ NoValidIndex(
                           AddressedBatch(handler, handler'.last.args),
                           handler'.last.args.error_indices[1]))
            => (/\ handler'.last.status = "error"
                /\ handler'.last.message = "no_valid_indices"
                /\ handler'.last.fixer_calls = 0
                /\ handler'.current_batches = handler.current_batches)]_vars

\* ---- C38
\* C38: through handle_mcp_command, a list_errors or fix_errors command that
\* follows a run_phpstan command which found errors works on the batches of
\* that analysis: it does not answer that no analysis has been run.
C38_StateOutlivesCommand ==
    [][(/\ CommandStep
        /\ handler.last.command = "run_phpstan"
        /\ handler.last.errors > 0
        /\ handler'.last.command \in {"list_errors", "fix_errors"})
            => handler'.last.message # "run_analysis_first"]_vars

\* ---- C39
\* C39: after any sequence of commands current_batch_idx is 0 when
\* current_batches is empty, and an index of current_batches otherwise.
C39_BatchIdxInRange ==
    handler.pc = "ready"
        => IF handler.current_batches = <<>>
           THEN handler.current_batch_idx = 0
           ELSE handler.current_batch_idx
                    \in 0..(Len(handler.current_batches) - 1)

\* fix_errors on the second batch has applied fixes and the analysis after
\* them reported one batch.
C39_Witness ==
    /\ handler.pc = "ready"
    /\ handler.last.command = "fix_errors"
    /\ handler.last.message = "applied"
    /\ handler.last.args.batch_index = <<1>>
    /\ Len(handler.current_batches) = 1
    /\ handler.current_batch_idx = 0

\* ---- C40
\* C40: every batch of current_batches has a batch_size equal to the number
\* of its error entries, and every error the last analysis reported is in a
\* batch of current_batches.
C40_BatchesKeepReport ==
    handler.pc = "ready"
        => /\ \A i \in 1..Len(handler.current_batches) :
                 handler.current_batches[i].batch.batch_size
                     = Len(FlattenDict(
                               handler.current_batches[i].errors_by_file))
           /\ \A k \in 1..Len(handler.reported) :
                 \E j \in 1..Len(FlattenBatches(handler.current_batches)) :
                    FlattenBatches(handler.current_batches)[j]
                        = handler.reported[k]

\* ---- C33
\* C33: the file contents process() sends with a batch are the contents the
\* files have when the batch is sent, every patch of the earlier batches of
\* the iteration written, and never the contents they had before.
C33_ContentsReadPerBatch ==
    run_pair.pc = "ready" /\ run_pair.process # NotRun
        => \A k \in 1..Len(run_pair.process.log) :
              run_pair.process.log[k].contents # Omitted
                  => run_pair.process.log[k].contents
                         = run_pair.process.log[k].disk

\* The second batch of an iteration was sent after a patch of the first.
C33_Witness ==
    /\ run_pair.pc = "ready"
    /\ run_pair.process # NotRun
    /\ \E k \in 1..Len(run_pair.process.log) :
          /\ run_pair.process.log[k].batch_idx = 1
          /\ run_pair.process.log[k].disk # run_pair.process.log[k].start
          /\ run_pair.process.log[k].contents = run_pair.process.log[k].disk

\* ---- C37
\* C37: with an Analyzer whose outcome depends on the files alone and a Fixer
\* whose response depends on the request alone, process_phpstan_errors and
\* process, run on the same files with the same batch size and
\* max_iterations, return the same boolean.
C37_SameResult ==
    (/\ run_pair.pc = "ready"
     /\ run_pair.process # NotRun
     /\ run_pair.client # NotRun)
        => (/\ run_pair.client.result \in {"True", "False"}
            /\ run_pair.client.result = run_pair.process.result)

\* The program is sequential and every external call returns: whatever step is
\* enabled is eventually taken.
FairSpec == Spec /\ WF_vars(Next)

====
